---- MODULE Spec2Model ----
(***************************************************************************)
(* The reactor core of charms.declarative: registration of input, compute  *)
(* and output cells with predicated variants, the consistency check        *)
(* (dependents and circular dependencies) and the evaluation loop _run.    *)
(*                                                                         *)
(* Names and keys are sequences of one-character strings, so that          *)
(* maybe_format_key is modelled by the substitution it performs.           *)
(*                                                                         *)
(* The library around the core has specifications of its own over the      *)
(* same variables: LazySpec (the lazy cell Callable of ro_types.py),       *)
(* ContextSpec (the store of context.py), UtilsSpec (maybe_format_key),    *)
(* RegSpec (registration under names that share a key), PredSpec (the      *)
(* combinators and the comparator of predicates.py) and ChangeSpec (the    *)
(* change detection of scratch/reactor.py). DriftSpec is Spec with         *)
(* predicates whose answer may change during a run.                        *)
(***************************************************************************)
EXTENDS Integers, Sequences, FiniteSets, TLC

VARIABLES
    reactor,    \* the OrderedDict key -> ReactorItem, as a sequence in insertion order
    nregs,      \* number of registration calls made so far
    pval,       \* what each predicate does when called: "T", "F" or "Raise"
    pc,         \* "build" (registration), "running" (inside _run's loop), "ended"
    exc,        \* the exception the last call raised, "None" when it returned
    queue,      \* _run's deque of ResolvedItem / None
    processed,  \* _run's set of processed keys
    store,      \* the caller's context as written by set_context_fn (key -> value)
    log,        \* the calls _run made to its collaborators, in order
    call,       \* the library call under way: its operation and arguments
    ret,        \* what the last library call did: the value returned or the exception raised
    _attrs,     \* Callable._attrs of the lazy cell in hand: callable, called, result
    invoked,    \* how many times the cell's underlying callable has been invoked
    __context__, \* context.__context__, the OrderedDict as a sequence of (key, value)
    _kv         \* unitdata.kv(): the key-value store that outlives a hook, as (key, value)

CoreVars == <<reactor, nregs, pval, pc, exc, queue, processed, store, log>>

LibVars == <<call, ret, _attrs, invoked, __context__, _kv>>

vars == <<CoreVars, LibVars>>

\* ------------------------------------------------------------------ bounds

MaxRegs == 4

\* ------------------------------------------------------------ utils.py

Letters == {"a", "b", "c", "d", "e", "f", "i", "n", "o", "r", "s", "t", "y", "l"}

Digits == {"1"}

Keywords ==
    { <<"a","s">>, <<"i","f">>, <<"i","n">>, <<"i","s">>, <<"o","r">>,
      <<"a","n","d">>, <<"d","e","f">>, <<"d","e","l">>, <<"f","o","r">>,
      <<"n","o","t">>, <<"t","r","y">> }

\* the translation table as if '/' and '\' became a single '_'
TranslateChar_single(c) ==
    CASE c = "-"  -> <<"_">>
      [] c = "."  -> <<"_">>
      [] c = "/"  -> <<"_">>
      [] c = "\\" -> <<"_">>
      [] OTHER    -> <<c>>

TranslateChar(c) ==
    CASE c = "-"  -> <<"_">>
      [] c = "."  -> <<"_">>
      [] c = "/"  -> <<"_", "_">>
      [] c = "\\" -> <<"_", "_">>
      [] OTHER    -> <<c>>

RECURSIVE Translate(_)
Translate(name) ==
    IF name = <<>> THEN <<>>
    ELSE TranslateChar(Head(name)) \o Translate(Tail(name))

IsIdentifier(key) ==
    /\ Len(key) > 0
    /\ key[1] \in Letters \cup {"_"}
    /\ \A i \in 1..Len(key) : key[i] \in Letters \cup Digits \cup {"_"}

IsKeyword(key) == key \in Keywords

\* maybe_format_key raises AttributeError exactly when FormatRaises(name)
FormatRaises(name) ==
    LET key == Translate(name)
    IN  ~IsIdentifier(key) \/ IsKeyword(key)

maybe_format_key(name) == Translate(name)

\* ---------------------------------------------------------- Python objects
\* A Python object is its type and its payload; a call either returns an
\* object or raises.

Py(type_, v) == [type |-> type_, v |-> v]

NoneObject == Py("NoneType", 0)

Bool(b) == Py("bool", b)

Str(s) == Py("str", s)

Returned(value) == [exc |-> "None", value |-> value]

Raised(e) == [exc |-> e, value |-> NoneObject]

\* bool(x), for the objects of the model
Truthy(x) ==
    CASE x.type = "bool"     -> x.v
      [] x.type = "int"      -> x.v # 0
      [] x.type = "NoneType" -> FALSE
      [] OTHER               -> TRUE

\* a function that takes no arguments: what each of its invocations does.
\* Lambda(outs): the n-th invocation returns outs[n], or raises when outs[n]
\* is Raise; invocations beyond the last behave as the last.
Raise == Py("raise", "Exception")

Lambda(outs) == Py("function", [body |-> "outcomes", outs |-> outs])

callable(x) == x.type \in {"function", "Callable"}

\* ------------------------------------------------------------- ro_types.py

\* Callable.__init__(fn)
Callable__init__(fn) ==
    IF ~callable(fn) THEN Raised("AssertionError")
    ELSE Returned(Py("Callable", [callable |-> fn, called |-> FALSE, result |-> NoneObject]))

resolve_value(value) ==
    IF callable(value) THEN Callable__init__(value).value
    ELSE IF value.type = "dict" THEN Py("ReadOnlyDict", value.v)
    ELSE IF value.type \in {"list", "tuple"} THEN Py("ReadOnlyList", value.v)
    ELSE value

\* the class attribute _list of the comparator subclass in use
_list == <<"apple", "cherry", "banana", "kiwi", "damson">>

InList(x) == \E i \in 1..Len(_list) : _list[i] = x

index(x) == CHOOSE i \in 1..Len(_list) : _list[i] = x /\ \A j \in 1..(i - 1) : _list[j] # x

NotOf(r) == IF r.exc # "None" THEN r ELSE Returned(Bool(~Truthy(r.value)))

\* the bodies of the lambdas of class P: both sides have been resolved; !=,
\* >= and <= negate what ==, < and > give
PCompares(operator, item, other) ==
    IF item.exc # "None" THEN item
    ELSE IF other.exc # "None" THEN other
    ELSE CASE operator = "==" -> Returned(Bool(item.value.v = other.value.v))
           [] operator = "!=" -> Returned(Bool(item.value.v # other.value.v))
           [] operator = "<"  -> Returned(Bool(item.value.v < other.value.v))
           [] operator = ">=" -> Returned(Bool(~(item.value.v < other.value.v)))
           [] operator = ">"  -> Returned(Bool(item.value.v > other.value.v))
           [] operator = "<=" -> Returned(Bool(~(item.value.v > other.value.v)))

RECURSIVE Apply(_, _)
RECURSIVE Callable__call__(_, _)
RECURSIVE __eq__(_, _)
RECURSIVE __lt__(_, _)
RECURSIVE __gt__(_, _)

\* _resolve_callable(c) of predicates.py: call c until it is not callable.
\* n is the evaluation it is made in (the n-th invocation of the lambda that
\* resolves c): a caller's function answers by its n-th outcome
RECURSIVE _resolve_callable(_, _)
_resolve_callable(c, n) ==
    IF ~callable(c) THEN Returned(c)
    ELSE LET r == IF c.type = "Callable" THEN Callable__call__(c.v, 0).ret ELSE Apply(c, n)
         IN  IF r.exc # "None" THEN r ELSE _resolve_callable(r.value, n)

\* the operands of any()/all() resolved from left to right, up to the first
\* one that raises or that decides the result
RECURSIVE AnyOf(_, _)
AnyOf(predicates, n) ==
    IF predicates = <<>> THEN Returned(Bool(FALSE))
    ELSE LET r == _resolve_callable(Head(predicates), n)
         IN  IF r.exc # "None" THEN r
             ELSE IF Truthy(r.value) THEN Returned(Bool(TRUE))
             ELSE AnyOf(Tail(predicates), n)

RECURSIVE AllOf(_, _)
AllOf(predicates, n) ==
    IF predicates = <<>> THEN Returned(Bool(TRUE))
    ELSE LET r == _resolve_callable(Head(predicates), n)
         IN  IF r.exc # "None" THEN r
             ELSE IF ~Truthy(r.value) THEN Returned(Bool(FALSE))
             ELSE AllOf(Tail(predicates), n)

\* the n-th invocation of the function c: the bodies of the lambdas that
\* the library wraps in a Callable, and the functions callers pass in
Apply(c, n) ==
    LET f == c.v
    IN  CASE f.body = "outcomes" ->
                 LET o == f.outs[IF n < Len(f.outs) THEN n ELSE Len(f.outs)]
                 IN  IF o.type = "raise" THEN Raised("Exception") ELSE Returned(o)
          [] f.body = "p_any"  -> AnyOf(f.predicates, n)
          [] f.body = "p_all"  -> AllOf(f.predicates, n)
          [] f.body = "p_none" -> NotOf(AllOf(f.predicates, n))
          [] f.body = "p_not"  -> NotOf(_resolve_callable(f.predicates[1], n))
          [] f.body = "P"      -> PCompares(f.operator, _resolve_callable(f.item, n),
                                            _resolve_callable(f.other, n))
          [] f.body = "eq"     -> Returned(Bool(f.self = index(f.other)))
          [] f.body = "lt"     -> Returned(Bool(f.self < index(f.other)))
          [] f.body = "gt"     -> Returned(Bool(f.self > index(f.other)))
          [] f.body = "ne"     ->
                 LET e == __eq__(f.self, f.other)
                 IN  IF e.exc # "None" THEN e ELSE NotOf(Callable__call__(e.value.v, 0).ret)
          [] f.body = "ge"     ->
                 LET e == __lt__(f.self, f.other)
                 IN  IF e.exc # "None" THEN e ELSE NotOf(Callable__call__(e.value.v, 0).ret)
          [] f.body = "le"     ->
                 LET e == __gt__(f.self, f.other)
                 IN  IF e.exc # "None" THEN e ELSE NotOf(Callable__call__(e.value.v, 0).ret)

\* the loop of Callable.__call__: call the callable, and what it returns,
\* until the result is not callable
RECURSIVE CallThrough(_, _)
CallThrough(c, n) ==
    LET r == IF c.type = "Callable" THEN Callable__call__(c.v, 0).ret ELSE Apply(c, n)
    IN  IF r.exc # "None" THEN r
        ELSE IF callable(r.value) THEN CallThrough(r.value, n)
        ELSE r

\* Callable.__call__ as if the result were never kept
Callable__call___no_cache(attrs, n) ==
    LET r == CallThrough(attrs.callable, n + 1)
    IN  IF r.exc # "None"
        THEN [attrs |-> attrs, invoked |-> n + 1, ret |-> r]
        ELSE [attrs |-> attrs, invoked |-> n + 1, ret |-> Returned(resolve_value(r.value))]

\* Callable.__call__(self), with n the invocations of the callable so far:
\* the cell afterwards, the invocations afterwards and what the call did
Callable__call__(attrs, n) ==
    IF ~attrs.called
    THEN LET marked == [attrs EXCEPT !.called = TRUE]
             r == CallThrough(attrs.callable, n + 1)
         IN  IF r.exc # "None"
             THEN [attrs |-> marked, invoked |-> n + 1, ret |-> r]
             ELSE [attrs   |-> [marked EXCEPT !.result = resolve_value(r.value)],
                   invoked |-> n + 1,
                   ret     |-> Returned(resolve_value(r.value))]
    ELSE [attrs |-> attrs, invoked |-> n, ret |-> Returned(attrs.result)]

\* ----------------------------------------------------------- predicates.py

\* DeferredBasicStringComparitor.__init__(item): the comparator keeps the
\* index of item in _list
Comparitor__init__(item) ==
    IF ~InList(item) THEN Raised("KeyError")
    ELSE Returned(Py("Comparitor", index(item)))

__eq__(self, other) ==
    IF ~InList(other) THEN Raised("KeyError")
    ELSE Callable__init__(Py("function", [body |-> "eq", self |-> self, other |-> other]))

__ne__(self, other) ==
    Callable__init__(Py("function", [body |-> "ne", self |-> self, other |-> other]))

__lt__(self, other) ==
    IF ~InList(other) THEN Raised("KeyError")
    ELSE Callable__init__(Py("function", [body |-> "lt", self |-> self, other |-> other]))

__ge__(self, other) ==
    Callable__init__(Py("function", [body |-> "ge", self |-> self, other |-> other]))

__gt__(self, other) ==
    IF ~InList(other) THEN Raised("KeyError")
    ELSE Callable__init__(Py("function", [body |-> "gt", self |-> self, other |-> other]))

__le__(self, other) ==
    Callable__init__(Py("function", [body |-> "le", self |-> self, other |-> other]))

\* p_any with the generator's truth inverted into all()
p_any_as_all(predicates) ==
    Callable__init__(Py("function", [body |-> "p_all", predicates |-> predicates]))

p_any(predicates) ==
    Callable__init__(Py("function", [body |-> "p_any", predicates |-> predicates]))

p_all(predicates) ==
    Callable__init__(Py("function", [body |-> "p_all", predicates |-> predicates]))

p_none(predicates) ==
    Callable__init__(Py("function", [body |-> "p_none", predicates |-> predicates]))

\* P(item) <operator> other
P_compare(operator, item, other) ==
    Callable__init__(Py("function", [body |-> "P", operator |-> operator,
                                     item |-> item, other |-> other]))

p_not(predicate) ==
    Callable__init__(Py("function", [body |-> "p_not", predicates |-> <<predicate>>]))

\* -------------------------------------------------------------- context.py

\* maybe_format_key of utils.py applied to any object: what the call does
maybe_format_key_call(name) ==
    IF name.type # "str" THEN Returned(name)
    ELSE IF FormatRaises(name.v) THEN Raised("AttributeError")
    ELSE Returned(Str(maybe_format_key(name.v)))

\* x == y for two objects of the model
SameObject(x, y) == x.type = y.type /\ x.v = y.v

InContext(ctx, k) == \E i \in 1..Len(ctx) : SameObject(ctx[i].key, k)

ValueIn(ctx, k) == ctx[CHOOSE i \in 1..Len(ctx) : SameObject(ctx[i].key, k)].value

\* ctxt[k] = value on an OrderedDict: a new key goes last, a present key
\* keeps its place
SetItem(ctxt, k, value) ==
    IF InContext(ctxt, k)
    THEN [i \in 1..Len(ctxt) |-> IF SameObject(ctxt[i].key, k) THEN [key |-> k, value |-> value] ELSE ctxt[i]]
    ELSE Append(ctxt, [key |-> k, value |-> value])

\* set_context as if a present key were overwritten
set_context_overwrites(ctx, key, data) ==
    LET k == maybe_format_key_call(key)
    IN  IF k.exc # "None" THEN [ctx |-> ctx, ret |-> k]
        ELSE [ctx |-> SetItem(ctx, k.value, resolve_value(data)), ret |-> Returned(NoneObject)]

\* set_context(key, data) on the store ctx: the store afterwards and what
\* the call did
set_context(ctx, key, data) ==
    LET k == maybe_format_key_call(key)
    IN  IF k.exc # "None" THEN [ctx |-> ctx, ret |-> k]
        ELSE IF InContext(ctx, k.value) THEN [ctx |-> ctx, ret |-> Raised("KeyExists")]
        ELSE [ctx |-> SetItem(ctx, k.value, resolve_value(data)), ret |-> Returned(NoneObject)]

\* the for loop of context(): the keys found are copied, the others skipped
RECURSIVE ContextLoop(_, _, _)
ContextLoop(ctx, keys, ctxt) ==
    IF keys = <<>> THEN Returned(Py("AttrDict", ctxt))
    ELSE LET k == maybe_format_key_call(Head(keys))
         IN  IF k.exc # "None" THEN k
             ELSE IF InContext(ctx, k.value)
                  THEN ContextLoop(ctx, Tail(keys), SetItem(ctxt, k.value, ValueIn(ctx, k.value)))
                  ELSE ContextLoop(ctx, Tail(keys), ctxt)

\* context(keys) on the store ctx
context(ctx, keys) ==
    IF keys.type = "NoneType" THEN Returned(Py("AttrDict", ctx))
    ELSE IF keys.type = "str" THEN ContextLoop(ctx, <<Py("type", "str")>>, <<>>)
    ELSE IF keys.type \notin {"list", "tuple"} THEN Raised("RuntimeError")
    ELSE ContextLoop(ctx, keys.v, <<>>)

\* -------------------------------------------- scratch (reactor.py, utils.py)

\* maybe_format_key of scratch/utils.py: key.replace("-", "_") for a string
maybe_format_key_scratch(key) ==
    IF key.type # "str" THEN key
    ELSE Str([i \in DOMAIN key.v |-> IF key.v[i] = "-" THEN "_" ELSE key.v[i]])

\* the compact JSON text of a value, Callables resolved
RECURSIVE JsonOf(_)
JsonOf(value) ==
    CASE value.type = "int"      -> <<ToString(value.v)>>
      [] value.type = "NoneType" -> <<"null">>
      [] value.type = "Callable" -> JsonOf(Callable__call__(value.v, 0).ret.value)
      [] OTHER                   ->
            <<"[">> \o [i \in DOMAIN value.v |-> ToString(value.v[i])] \o <<"]">>

\* serialize_key(key) of scratch/context.py: c[key] raises KeyError for a key
\* that is not in the context
serialize_key(ctx, key) ==
    LET k == maybe_format_key_scratch(key)
    IN  IF ~InContext(ctx, k) THEN Raised("KeyError")
        ELSE Returned(Str(JsonOf(ValueIn(ctx, k))))

\* hash_str(s): None for None; for a string, h.update(str(s)) is given a str
\* where bytes are required and raises TypeError
hash_str(s) ==
    IF s.type = "NoneType" THEN Returned(NoneObject) ELSE Raised("TypeError")

\* _has_key_changed(key, _kv, _context): the kv store afterwards and what
\* the call did
_has_key_changed(key, kv, ctx) ==
    LET k == maybe_format_key_scratch(key)
        current == serialize_key(ctx, k)
        formatted_key == Str(<<"charms.declarative.context.">> \o k.v)
        old_hash == IF InContext(kv, formatted_key) THEN ValueIn(kv, formatted_key)
                    ELSE NoneObject
        new_hash == hash_str(current.value)
        changed == SameObject(new_hash.value, old_hash)
    IN  IF current.exc # "None" THEN [kv |-> kv, ret |-> current]
        ELSE IF new_hash.exc # "None" THEN [kv |-> kv, ret |-> new_hash]
        ELSE IF new_hash.value.type # "NoneType"
             THEN [kv |-> SetItem(kv, formatted_key, new_hash.value), ret |-> Returned(Bool(changed))]
        ELSE IF old_hash.type # "NoneType"
             THEN [kv  |-> SelectSeq(kv, LAMBDA e : ~SameObject(e.key, formatted_key)),
                   ret |-> Returned(Bool(changed))]
        ELSE [kv |-> kv, ret |-> Returned(Bool(changed))]

\* ------------------------------------------------- the library at rest

NoResult == Returned(Py("nothing", 0))

NoCell == [callable |-> NoneObject, called |-> FALSE, result |-> NoneObject]

LibIdle ==
    /\ call = [op |-> "idle", n |-> 0]
    /\ ret = NoResult
    /\ _attrs = NoCell
    /\ invoked = 0
    /\ __context__ = <<>>
    /\ _kv = <<>>

\* ------------------------------------------------------- reactor_core.py

INPUT == "INPUT"

COMPUTE == "COMPUTE"

OUTPUT == "OUTPUT"

ReactorItem(type_, key, name, variants, dependents) ==
    [type_ |-> type_, key |-> key, name |-> name,
     variants |-> variants, dependents |-> dependents]

ReactorItemVariant(item, dependencies, predicates, persistent) ==
    [item |-> item, dependencies |-> dependencies,
     predicates |-> predicates, persistent |-> persistent]

ResolvedItem(type_, key, name, item, dependents, dependencies, persistent) ==
    [type_ |-> type_, key |-> key, name |-> name, item |-> item,
     dependents |-> dependents, dependencies |-> dependencies,
     persistent |-> persistent]

\* Python's None in a place where a ResolvedItem is expected
NoneItem == [type_ |-> "None"]

\* `key in reactor`
HasKey(r, key) == \E i \in 1..Len(r) : r[i].key = key

IndexOf(r, key) == CHOOSE i \in 1..Len(r) : r[i].key = key

\* `reactor[key]`
ItemAt(r, key) == r[IndexOf(r, key)]

KeysOf(r) == {r[i].key : i \in 1..Len(r)}

\* an optional argument: None, or a list
PyNone == [none |-> TRUE, list |-> <<>>]

PyList(l) == [none |-> FALSE, list |-> l]

\* "ok", or the exception _assert_valid_entry raises
_assert_valid_entry(r, name, new_is_default) ==
    IF FormatRaises(name) THEN "AttributeError"
    ELSE LET key == maybe_format_key(name)
         IN  IF ~new_is_default \/ ~HasKey(r, key) THEN "ok"
             ELSE IF \E i \in 1..Len(ItemAt(r, key).variants) :
                        ItemAt(r, key).variants[i].predicates = <<>>
                  THEN "AssertionError"
                  ELSE "ok"

\* the variant put first instead of last
AppendVariant_first(r, key, variant) ==
    [r EXCEPT ![IndexOf(r, key)].variants = <<variant>> \o @]

\* `reactor[key].variants.append(variant)`
AppendVariant(r, key, variant) ==
    [r EXCEPT ![IndexOf(r, key)].variants = Append(@, variant)]

\* the variant appended before the type of the existing item is examined
_add_input_appends_first(r, name, storable, predicates, persistent) ==
    LET valid == _assert_valid_entry(r, name, predicates.none)
        key == maybe_format_key(name)
        variant == ReactorItemVariant(storable, <<>>, predicates.list, persistent)
    IN  IF valid # "ok" THEN [reactor |-> r, exc |-> valid]
        ELSE IF ~HasKey(r, key)
             THEN [reactor |-> AppendVariant(
                                   Append(r, ReactorItem(INPUT, key, name, <<>>, {})),
                                   key, variant),
                   exc |-> "None"]
             ELSE [reactor |-> AppendVariant(r, key, variant),
                   exc |-> IF ItemAt(r, key).type_ # INPUT THEN "ReactorError"
                           ELSE "None"]

\* _add_input: the reactor afterwards and the exception raised ("None" if none)
_add_input(r, name, storable, predicates, persistent) ==
    LET valid == _assert_valid_entry(r, name, predicates.none)
        key == maybe_format_key(name)
        variant == ReactorItemVariant(storable, <<>>, predicates.list, persistent)
    IN  IF valid # "ok" THEN [reactor |-> r, exc |-> valid]
        ELSE IF ~HasKey(r, key)
             THEN [reactor |-> AppendVariant(
                                   Append(r, ReactorItem(INPUT, key, name, <<>>, {})),
                                   key, variant),
                   exc |-> "None"]
             ELSE IF ItemAt(r, key).type_ # INPUT
                  THEN [reactor |-> r, exc |-> "ReactorError"]
                  ELSE [reactor |-> AppendVariant(r, key, variant), exc |-> "None"]

\* `[maybe_format_key(d) for d in dependencies]`
FormatAll(dependencies) ==
    [i \in 1..Len(dependencies) |-> maybe_format_key(dependencies[i])]

SeqElems(s) == {s[i] : i \in 1..Len(s)}

\* _add_compute_or_output: the reactor afterwards and the exception raised
_add_compute_or_output(r, type_, name, function, dependencies, predicates, persistent) ==
    LET valid == _assert_valid_entry(r, name, predicates.none)
        key == maybe_format_key(name)
        dependencies_keys == FormatAll(dependencies)
        variant == ReactorItemVariant(function, dependencies_keys,
                                      predicates.list, persistent)
    IN  IF valid # "ok" THEN [reactor |-> r, exc |-> valid]
        ELSE IF ~function.callable THEN [reactor |-> r, exc |-> "AssertionError"]
        ELSE IF \E d \in SeqElems(dependencies) : FormatRaises(d)
             THEN [reactor |-> r, exc |-> "AttributeError"]
        ELSE IF key \in SeqElems(dependencies)
             THEN [reactor |-> r, exc |-> "KeyExists"]
        ELSE IF ~HasKey(r, key)
             THEN [reactor |-> AppendVariant(
                                   Append(r, ReactorItem(type_, key, name, <<>>, {})),
                                   key, variant),
                   exc |-> "None"]
        ELSE IF ItemAt(r, key).type_ # type_
             THEN [reactor |-> r, exc |-> "ReactorError"]
             ELSE [reactor |-> AppendVariant(r, key, variant), exc |-> "None"]

\* ------------------------------------------- consistency check (_check_reactor)

RECURSIVE Flatten(_)
Flatten(ss) == IF ss = <<>> THEN <<>> ELSE Head(ss) \o Flatten(Tail(ss))

\* the dependency keys of all variants of one item, in iteration order
VariantDeps(item) ==
    Flatten([v \in 1..Len(item.variants) |-> item.variants[v].dependencies])

\* the dependency keys visited by _calculate_dependents' three nested loops
AllDeps(r) == Flatten([i \in 1..Len(r) |-> VariantDeps(r[i])])

\* mutant: only the first variant of an item makes it a dependent
_calculate_dependents_first_variant(r) ==
    [reactor |->
        [i \in 1..Len(r) |->
            [r[i] EXCEPT !.dependents =
                @ \cup {r[j].key : j \in {k \in 1..Len(r) :
                                   r[i].key \in SeqElems(r[k].variants[1].dependencies)}}]],
     errors |-> SelectSeq(AllDeps(r), LAMBDA d : ~HasKey(r, d))]

\* mutant: only the first missing key is reported
_calculate_dependents_first_error(r) ==
    [reactor |->
        [i \in 1..Len(r) |->
            [r[i] EXCEPT !.dependents =
                @ \cup {r[j].key : j \in {k \in 1..Len(r) :
                                   r[i].key \in SeqElems(VariantDeps(r[k]))}}]],
     errors |-> LET all == SelectSeq(AllDeps(r), LAMBDA d : ~HasKey(r, d))
                IN  IF all = <<>> THEN <<>> ELSE <<all[1]>>]

\* _calculate_dependents: the reactor afterwards (dependents sets grown in
\* place, also when it raises) and the list of missing keys it collected
_calculate_dependents(r) ==
    [reactor |->
        [i \in 1..Len(r) |->
            [r[i] EXCEPT !.dependents =
                @ \cup {r[j].key : j \in {k \in 1..Len(r) :
                                   r[i].key \in SeqElems(VariantDeps(r[k]))}}]],
     errors |-> SelectSeq(AllDeps(r), LAMBDA d : ~HasKey(r, d))]

\* Suffix(path, i) is Python's _path[i:] for the 1-based index i
Suffix(path, i) == SubSeq(path, i, Len(path))

\* the `for i, key in enumerate(_path)` loop of __check_circular_dependencies:
\* the str_path of every key of the path that is among the dependents
PathLoop(path, dependents) ==
    {Suffix(path, i) : i \in {j \in 1..Len(path) : path[j] \in dependents}}

\* __check_circular_dependencies: the set path_errors of the cycle paths found
\* from _path on. errors holds one text per element of path_errors (the path
\* and its first key), so it is kept as this set; the order in which a set of
\* dependents is iterated changes only the order of the texts
RECURSIVE __check_circular_dependencies(_, _, _)
__check_circular_dependencies(r, path, dependents) ==
    PathLoop(path, dependents)
    \cup UNION { __check_circular_dependencies(r, Append(path, key),
                                               ItemAt(r, key).dependents) :
                 key \in {k \in dependents : /\ k \notin SeqElems(path)
                                             /\ ItemAt(r, k).dependents # {}} }

\* mutant: only the paths from the first item are followed
_check_circular_dependencies_first_item(r) ==
    IF r = <<>> THEN {}
    ELSE __check_circular_dependencies(r, <<r[1].key>>, r[1].dependents)

\* _check_circular_dependencies: the errors it would join into a ReactorError
_check_circular_dependencies(r) ==
    UNION { __check_circular_dependencies(r, <<r[i].key>>, r[i].dependents) :
            i \in 1..Len(r) }

\* _check_reactor: the reactor afterwards and the exception raised
_check_reactor(r) ==
    LET cd == _calculate_dependents(r)
    IN  IF cd.errors # <<>> THEN [reactor |-> cd.reactor, exc |-> "ReactorError"]
        ELSE IF _check_circular_dependencies(cd.reactor) # {}
             THEN [reactor |-> cd.reactor, exc |-> "ReactorError"]
             ELSE [reactor |-> cd.reactor, exc |-> "None"]

\* ---------------------------------------------------------- _resolve_item

\* mutant: a predicate that raises counts as false
RECURSIVE EvalAll_raise_is_false(_, _)
EvalAll_raise_is_false(predicates, pv) ==
    IF predicates = <<>> THEN [res |-> "T", evals |-> <<>>]
    ELSE LET p == Head(predicates)
         IN  IF pv[p] = "T"
             THEN LET rest == EvalAll_raise_is_false(Tail(predicates), pv)
                  IN  [res |-> rest.res, evals |-> <<p>> \o rest.evals]
             ELSE [res |-> "F", evals |-> <<p>>]

\* `all((p() for p in predicates))`: predicates are called in list order up to
\* the first falsy one or the first that raises
RECURSIVE EvalAll(_, _)
EvalAll(predicates, pv) ==
    IF predicates = <<>> THEN [res |-> "T", evals |-> <<>>]
    ELSE LET p == Head(predicates)
         IN  IF pv[p] = "T"
             THEN LET rest == EvalAll(Tail(predicates), pv)
                  IN  [res |-> rest.res, evals |-> <<p>> \o rest.evals]
             ELSE [res |-> pv[p], evals |-> <<p>>]

\* mutant: an empty predicate list is evaluated like any other
IsDefault_never(variant) == FALSE

\* `not variant.predicates`: the variant is a default
IsDefault(variant) == variant.predicates = <<>>

\* the for/else loop of _resolve_item from variant i on; default is the index
\* of the last empty-predicate variant seen (0 for None)
RECURSIVE ResolveLoop(_, _, _, _, _)
ResolveLoop(variants, pv, i, default, evals) ==
    IF i > Len(variants)
    THEN [kind |-> IF default # 0 THEN "item" ELSE "none",
          select |-> default, evals |-> evals]
    ELSE IF IsDefault(variants[i])
         THEN ResolveLoop(variants, pv, i + 1, i, evals)
         ELSE LET e == EvalAll(variants[i].predicates, pv)
              IN  CASE e.res = "T" ->
                         [kind |-> "item", select |-> i, evals |-> evals \o e.evals]
                    [] e.res = "Raise" ->
                         [kind |-> "abort", select |-> 0, evals |-> evals \o e.evals]
                    [] OTHER ->
                         ResolveLoop(variants, pv, i + 1, default, evals \o e.evals)

\* mutant: the resolved item carries the dependencies of all the variants
_resolve_item_all_dependencies(reactor_item, pv) ==
    LET res == ResolveLoop(reactor_item.variants, pv, 1, 0, <<>>)
        select == reactor_item.variants[res.select]
    IN  [kind |-> res.kind,
         evals |-> res.evals,
         item |-> IF res.kind = "item"
                  THEN ResolvedItem(reactor_item.type_, reactor_item.key,
                                    reactor_item.name, select.item,
                                    reactor_item.dependents, VariantDeps(reactor_item),
                                    select.persistent)
                  ELSE NoneItem]

\* _resolve_item: kind "item" with the ResolvedItem, kind "none" for None,
\* kind "abort" when it raises AbortExecution; evals lists the predicates called
_resolve_item(reactor_item, pv) ==
    LET res == ResolveLoop(reactor_item.variants, pv, 1, 0, <<>>)
        select == reactor_item.variants[res.select]
    IN  [kind |-> res.kind,
         evals |-> res.evals,
         item |-> IF res.kind = "item"
                  THEN ResolvedItem(reactor_item.type_, reactor_item.key,
                                    reactor_item.name, select.item,
                                    reactor_item.dependents, select.dependencies,
                                    select.persistent)
                  ELSE NoneItem]

\* resolving the items of the keys `keys` one after the other, as the
\* generators handed to deque(), extendleft() and extend() do: items holds the
\* results up to the first AbortExecution
RECURSIVE ResolveKeys(_, _, _)
ResolveKeys(r, keys, pv) ==
    IF keys = <<>> THEN [abort |-> FALSE, items |-> <<>>, evals |-> <<>>]
    ELSE LET first == _resolve_item(ItemAt(r, Head(keys)), pv)
         IN  IF first.kind = "abort"
             THEN [abort |-> TRUE, items |-> <<>>, evals |-> first.evals]
             ELSE LET rest == ResolveKeys(r, Tail(keys), pv)
                  IN  [abort |-> rest.abort,
                       items |-> <<first.item>> \o rest.items,
                       evals |-> first.evals \o rest.evals]

\* ------------------------------------------------------------ collaborators

\* the predicates registered with variants, by name
Preds == {"p1", "p2"}

PVals == [Preds -> {"T", "F", "Raise"}]

\* Python's None as a cell value (cell values proper are naturals)
NoneValue == -1

\* a literal storable (tests: `core._add_input(r, 'a', 1)`)
Literal(k) == [callable |-> FALSE, k |-> k]

\* a callable: for an input the thunk `lambda: k`, for a compute or output the
\* function `lambda c: k + sum of the values in c` (tests: `lambda c: c['a'] + 1`)
Function(k) == [callable |-> TRUE, k |-> k]

\* one entry of the log of calls
Ev(op, key, deps, val) == [op |-> op, key |-> key, deps |-> deps, val |-> val]

PredEvents(evals) == [i \in 1..Len(evals) |-> Ev("pred", <<evals[i]>>, <<>>, 0)]

\* get_context_fn(dependencies): the stored values of the requested keys that
\* are present (context() and the tests' getter skip the missing ones)
get_context_fn(st, dependencies) ==
    [d \in SeqElems(dependencies) \cap DOMAIN st |-> st[d]]

\* set_context_fn(name, value): the store keeps value under the formatted key
set_context_fn(st, name, value) ==
    [k \in DOMAIN st \cup {maybe_format_key(name)} |->
        IF k = maybe_format_key(name) THEN value ELSE st[k]]

RECURSIVE SumOf(_, _)
SumOf(ctx, keys) ==
    IF keys = {} THEN 0
    ELSE LET k == CHOOSE x \in keys : TRUE
         IN  (IF ctx[k] = NoneValue THEN 0 ELSE ctx[k]) + SumOf(ctx, keys \ {k})

\* what a cell's callable may do when called
Behaviours == {"Return", "AbortFunction", "AbortExecution", "Exception", "GetRaises"}

\* the behaviours open to a resolved item: a literal input is only returned,
\* and only a compute or output calls get_context_fn
BehavioursOf(cell) ==
    IF cell.type_ = INPUT
    THEN IF cell.item.callable THEN Behaviours \ {"GetRaises"} ELSE {"Return"}
    ELSE Behaviours

\* mutant: an exception that is no abort signal only stops the cell
_process_item_swallows(resolved_item, st, how) ==
    CASE how = "Return" ->
            [exc |-> "None",
             value |-> IF resolved_item.type_ = INPUT THEN resolved_item.item.k
                       ELSE LET ctx == get_context_fn(st, resolved_item.dependencies)
                            IN  resolved_item.item.k + SumOf(ctx, DOMAIN ctx)]
      [] how \in {"AbortFunction", "Exception"} ->
            [exc |-> "AbortFunction", value |-> NoneValue]
      [] OTHER -> [exc |-> "AbortExecution", value |-> NoneValue]

\* _process_item: the exception it raises ("None" if it returns) and its value,
\* for a callable behaving as `how`
_process_item(resolved_item, st, how) ==
    CASE how = "Return" ->
            [exc |-> "None",
             value |-> IF resolved_item.type_ = INPUT THEN resolved_item.item.k
                       ELSE LET ctx == get_context_fn(st, resolved_item.dependencies)
                            IN  resolved_item.item.k + SumOf(ctx, DOMAIN ctx)]
      [] how = "AbortFunction" -> [exc |-> "AbortFunction", value |-> NoneValue]
      [] OTHER -> [exc |-> "AbortExecution", value |-> NoneValue]

\* the calls _process_item makes and what came of them, for the log: the
\* get_context_fn call, the invocation of the cell's callable (a literal input
\* counts as invoked) with the value it returned, and the exception raised
ProcessEvents(cell, how, res) ==
    (IF cell.type_ = INPUT THEN <<>>
     ELSE <<Ev("get", cell.key, cell.dependencies, 0)>>)
    \o (IF how = "GetRaises" THEN <<>>
        ELSE <<Ev("invoke", cell.key, cell.dependencies, res.value)>>)
    \o (IF how = "Return" THEN <<>> ELSE <<Ev(how, cell.key, <<>>, 0)>>)

\* ------------------------------------------------------------- registration

A == <<"a">>

B == <<"b">>

C == <<"c">>

D == <<"d">>

\* the name 'b-b' and its key 'b_b'
B_B == <<"b", "-", "b">>

Bu_B == <<"b", "_", "b">>

\* the add_input calls the model makes
InputCalls ==
    { [name |-> A, storable |-> Literal(1), predicates |-> PyNone, persistent |-> TRUE],
      [name |-> A, storable |-> Function(2), predicates |-> PyList(<<"p1">>),
       persistent |-> FALSE],
      [name |-> B, storable |-> Literal(5), predicates |-> PyList(<<>>),
       persistent |-> TRUE],
      [name |-> A, storable |-> Function(4), predicates |-> PyList(<<"p2", "p1">>),
       persistent |-> TRUE] }

\* the add_compute calls the model makes
ComputeCalls ==
    { [name |-> B, function |-> Function(1), dependencies |-> <<A>>,
       predicates |-> PyNone, persistent |-> TRUE],
      [name |-> B, function |-> Function(2), dependencies |-> <<D>>,
       predicates |-> PyList(<<"p1">>), persistent |-> FALSE],
      [name |-> C, function |-> Function(2), dependencies |-> <<A, B>>,
       predicates |-> PyNone, persistent |-> TRUE],
      [name |-> C, function |-> Function(3), dependencies |-> <<D, B, A>>,
       predicates |-> PyList(<<"p1", "p2">>), persistent |-> TRUE],
      [name |-> D, function |-> Function(4), dependencies |-> <<>>,
       predicates |-> PyNone, persistent |-> FALSE],
      [name |-> B_B, function |-> Function(1), dependencies |-> <<A, B_B>>,
       predicates |-> PyNone, persistent |-> TRUE],
      [name |-> B_B, function |-> Function(1), dependencies |-> <<A, Bu_B>>,
       predicates |-> PyNone, persistent |-> TRUE] }

\* the add_output calls the model makes
OutputCalls ==
    { [name |-> D, function |-> Function(0), dependencies |-> <<B, C>>,
       predicates |-> PyNone, persistent |-> TRUE],
      [name |-> B, function |-> Function(1), dependencies |-> <<A>>,
       predicates |-> PyNone, persistent |-> TRUE] }

Init ==
    /\ reactor = <<>>
    /\ nregs = 0
    /\ pval \in PVals
    /\ pc = "build"
    /\ exc = "None"
    /\ queue = <<>>
    /\ processed = {}
    /\ store = <<>>
    /\ log = <<>>
    /\ LibIdle

RunVars == <<queue, processed, store, log>>

\* add_input(name, storable, predicates, persistent)
AddInput ==
    /\ pc = "build"
    /\ nregs < MaxRegs
    /\ \E c \in InputCalls :
          LET res == _add_input(reactor, c.name, c.storable, c.predicates, c.persistent)
          IN  /\ reactor' = res.reactor
              /\ exc' = res.exc
    /\ nregs' = nregs + 1
    /\ UNCHANGED <<pval, pc, RunVars>>
    /\ UNCHANGED LibVars

\* add_compute(name, function, dependencies, predicates, persistent)
AddCompute ==
    /\ pc = "build"
    /\ nregs < MaxRegs
    /\ \E c \in ComputeCalls :
          LET res == _add_compute_or_output(reactor, COMPUTE, c.name, c.function,
                                            c.dependencies, c.predicates, c.persistent)
          IN  /\ reactor' = res.reactor
              /\ exc' = res.exc
    /\ nregs' = nregs + 1
    /\ UNCHANGED <<pval, pc, RunVars>>
    /\ UNCHANGED LibVars

\* add_output(name, function, dependencies, predicates, persistent)
AddOutput ==
    /\ pc = "build"
    /\ nregs < MaxRegs
    /\ \E c \in OutputCalls :
          LET res == _add_compute_or_output(reactor, OUTPUT, c.name, c.function,
                                            c.dependencies, c.predicates, c.persistent)
          IN  /\ reactor' = res.reactor
              /\ exc' = res.exc
    /\ nregs' = nregs + 1
    /\ UNCHANGED <<pval, pc, RunVars>>
    /\ UNCHANGED LibVars

\* --------------------------------------------------------------------- _run

Reverse(s) == [i \in 1..Len(s) |-> s[Len(s) + 1 - i]]

\* the sequences that list the elements of the set S once each: the orders
\* in which a Python set may be iterated
Orders(S) ==
    {o \in [1..Cardinality(S) -> S] : \A i, j \in 1..Cardinality(S) : o[i] = o[j] => i = j}

\* mutant: the keys of all the items, whatever their type
InputKeys_every_type(r) == [i \in 1..Len(r) |-> r[i].key]

\* the keys of the INPUT items in the order of reactor.values()
InputKeys(r) ==
    LET ins == SelectSeq(r, LAMBDA item : item.type_ = INPUT)
    IN  [i \in 1..Len(ins) |-> ins[i].key]

\* mutant: the inputs are queued last registered first
_initialise_queue_with_inputs_reversed(r, pv) == ResolveKeys(r, Reverse(InputKeys(r)), pv)

\* _initialise_queue_with_inputs, consumed by deque()
_initialise_queue_with_inputs(r, pv) == ResolveKeys(r, InputKeys(r), pv)

\* mutant: no dependency is reported as unprocessed
_find_unprocessed_dependencies_none(proc, resolved_item) == <<>>

\* _find_unprocessed_dependencies, as the list the generator yields
_find_unprocessed_dependencies(proc, resolved_item) ==
    SelectSeq(resolved_item.dependencies, LAMBDA d : d \notin proc)

\* lines 457-461 of _run: the unprocessed dependencies of the peeked cell are
\* resolved and pushed on the left by the appendleft loop, and once more by
\* extendleft; abort when a predicate raised on the way
PushDependencies(r, q, proc, pv) ==
    LET rk == ResolveKeys(r, _find_unprocessed_dependencies(proc, q[1]), pv)
    IN  [abort |-> rk.abort,
         queue |-> Reverse(rk.items) \o Reverse(rk.items) \o q,
         evals |-> IF rk.abort THEN rk.evals ELSE rk.evals \o rk.evals]

\* `peek_cell != queue[0]` after the pushes: the loop restarts
Restarts(peek_cell, q) == peek_cell # q[1]

\* mutant: detect_change_fn is consulted for every cell that is not an output
CallsChanged_unless_output(cell) == cell.type_ # OUTPUT

\* detect_change_fn is consulted for a persistent cell that is not an output
CallsChanged(cell) == cell.persistent /\ cell.type_ # OUTPUT

\* mutant: the answer of detect_change_fn is not taken into account
Propagates_unless_persistent(cell, chg) == ~cell.persistent \/ cell.type_ = OUTPUT

\* mutant: dependents are enqueued whatever detect_change_fn answers
Propagates_always(cell, chg) == TRUE

\* the condition of line 486 guarding the extend of line 489
Propagates(cell, chg) == ~cell.persistent \/ cell.type_ = OUTPUT \/ chg

\* the dependents line 489 enqueues
DependentsToQueue(cell, proc) == {d \in cell.dependents : d \notin proc}

\* mutant: set_context_fn is not called
CallsSet_never(cell) == FALSE

\* mutant: set_context_fn is called for outputs too
CallsSet_always(cell) == TRUE

\* set_context_fn is called unless the cell is an output (lines 472, 484)
CallsSet(cell) == cell.type_ # OUTPUT

\* mutant: the inputs are resolved before the reactor is checked
RunStart_resolves_first ==
    /\ pc = "build"
    /\ LET chk == _check_reactor(reactor)
           init == _initialise_queue_with_inputs(reactor, pval)
       IN  /\ reactor' = chk.reactor
           /\ processed' = {}
           /\ store' = <<>>
           /\ log' = PredEvents(init.evals)
           /\ queue' = IF init.abort \/ chk.exc # "None" THEN <<>> ELSE init.items
           /\ pc' = IF init.abort \/ chk.exc # "None" THEN "ended" ELSE "running"
           /\ exc' = IF init.abort THEN "AbortExecution" ELSE chk.exc
    /\ UNCHANGED <<nregs, pval>>
    /\ UNCHANGED LibVars

\* _run(reactor, detect_change_fn, get_context_fn, set_context_fn) up to the
\* start of its loop: the consistency check and the initial queue
RunStart ==
    /\ pc = "build"
    /\ LET chk == _check_reactor(reactor)
           init == _initialise_queue_with_inputs(chk.reactor, pval)
       IN  /\ reactor' = chk.reactor
           /\ processed' = {}
           /\ store' = <<>>
           /\ IF chk.exc # "None"
              THEN /\ pc' = "ended"
                   /\ exc' = chk.exc
                   /\ UNCHANGED <<queue, log>>
              ELSE /\ queue' = init.items
                   /\ log' = PredEvents(init.evals)
                   /\ pc' = IF init.abort THEN "ended" ELSE "running"
                   /\ exc' = IF init.abort THEN "AbortExecution" ELSE "None"
    /\ UNCHANGED <<nregs, pval>>
    /\ UNCHANGED LibVars

\* `while queue:` is false: _run returns
RunReturns ==
    /\ pc = "running"
    /\ queue = <<>>
    /\ pc' = "ended"
    /\ exc' = "None"
    /\ UNCHANGED <<reactor, nregs, pval, RunVars>>
    /\ UNCHANGED LibVars

\* the front of the queue is None: `peek_cell.key` raises AttributeError
PeekNone ==
    /\ pc = "running"
    /\ queue # <<>>
    /\ queue[1] = NoneItem
    /\ pc' = "ended"
    /\ exc' = "AttributeError"
    /\ UNCHANGED <<reactor, nregs, pval, RunVars>>
    /\ UNCHANGED LibVars

\* lines 454-456: the peeked cell is already processed
DropProcessed ==
    /\ pc = "running"
    /\ queue # <<>>
    /\ queue[1] # NoneItem
    /\ queue[1].key \in processed
    /\ queue' = Tail(queue)
    /\ UNCHANGED <<reactor, nregs, pval, pc, exc, processed, store, log>>
    /\ UNCHANGED LibVars

\* mutant: the processed set is not consulted
Visiting_reprocess ==
    /\ pc = "running"
    /\ queue # <<>>
    /\ queue[1] # NoneItem

\* the peeked cell is neither None nor processed
Visiting ==
    /\ pc = "running"
    /\ queue # <<>>
    /\ queue[1] # NoneItem
    /\ queue[1].key \notin processed

\* lines 457-464: unprocessed dependencies are pushed and the loop restarts,
\* or a predicate of one of them raises and _run raises AbortExecution
Backtrack ==
    /\ Visiting
    /\ LET pd == PushDependencies(reactor, queue, processed, pval)
       IN  /\ pd.abort \/ Restarts(queue[1], pd.queue)
           /\ queue' = pd.queue
           /\ log' = log \o PredEvents(pd.evals)
           /\ pc' = IF pd.abort THEN "ended" ELSE pc
           /\ exc' = IF pd.abort THEN "AbortExecution" ELSE exc
    /\ UNCHANGED <<reactor, nregs, pval, processed, store>>
    /\ UNCHANGED LibVars

\* the set_context_fn call of lines 473 and 485, for the log
SetEvents(cell, value) ==
    IF CallsSet(cell) THEN <<Ev("set", cell.name, <<>>, value)>> ELSE <<>>

\* the store after lines 472-473 or 484-485
StoreAfter(st, cell, value) ==
    IF CallsSet(cell) THEN set_context_fn(st, cell.name, value) ELSE st

\* the detect_change_fn call of line 488, for the log
ChangedEvents(cell, chg) ==
    IF CallsChanged(cell)
    THEN <<Ev("changed", cell.name, <<>>, IF chg THEN 1 ELSE 0)>> ELSE <<>>

\* lines 466-490 for the popped cell `cell`, `rest` being the queue behind it
\* and res what _process_item did
Outcome(cell, rest, res, log1, cb, chg) ==
    CASE res.exc = "AbortExecution" ->
            \* lines 475-476: re-raised
            /\ queue' = rest
            /\ log' = log1
            /\ pc' = "ended"
            /\ exc' = "AbortExecution"
            /\ UNCHANGED <<processed, store>>
      [] cb = "set" ->
            \* set_context_fn raises at line 473 or 485
            /\ queue' = rest
            /\ processed' = processed \cup {cell.key}
            /\ log' = log1 \o SetEvents(cell, res.value)
            /\ pc' = "ended"
            /\ exc' = "SetError"
            /\ UNCHANGED store
      [] res.exc = "AbortFunction" ->
            \* lines 468-474
            /\ queue' = rest
            /\ processed' = processed \cup {cell.key}
            /\ store' = StoreAfter(store, cell, res.value)
            /\ log' = log1 \o SetEvents(cell, res.value)
            /\ UNCHANGED <<pc, exc>>
      [] cb = "changed" ->
            \* detect_change_fn raises at line 488
            /\ queue' = rest
            /\ processed' = processed \cup {cell.key}
            /\ store' = StoreAfter(store, cell, res.value)
            /\ log' = log1 \o SetEvents(cell, res.value) \o ChangedEvents(cell, chg)
            /\ pc' = "ended"
            /\ exc' = "ChangedError"
      [] OTHER ->
            \* lines 483-490
            \E order \in Orders(IF Propagates(cell, chg)
                                THEN DependentsToQueue(cell, processed \cup {cell.key})
                                ELSE {}) :
               LET rk == ResolveKeys(reactor, order, pval)
               IN  /\ queue' = rest \o rk.items
                   /\ processed' = processed \cup {cell.key}
                   /\ store' = StoreAfter(store, cell, res.value)
                   /\ log' = log1 \o SetEvents(cell, res.value) \o ChangedEvents(cell, chg)
                                  \o PredEvents(rk.evals)
                   /\ pc' = IF rk.abort THEN "ended" ELSE pc
                   /\ exc' = IF rk.abort THEN "AbortExecution" ELSE exc

\* line 465-467: the front cell is popped and handed to _process_item
Popped(cell, rest, log0, how, cb, chg) ==
    /\ how \in BehavioursOf(cell)
    /\ cb = "set" => CallsSet(cell) /\ how \in {"Return", "AbortFunction"}
    /\ cb = "changed" => CallsChanged(cell) /\ how = "Return"
    /\ ~CallsChanged(cell) => chg
    /\ Outcome(cell, rest, _process_item(cell, store, how),
               log0 \o ProcessEvents(cell, how, _process_item(cell, store, how)),
               cb, chg)

\* mutant: the cell at the front is resolved again before it is processed
ProcessCell_resolves_again(how, cb, chg) ==
    /\ Visiting
    /\ LET pd == PushDependencies(reactor, queue, processed, pval)
           again == _resolve_item(ItemAt(reactor, queue[1].key), pval)
       IN  /\ ~pd.abort
           /\ ~Restarts(queue[1], pd.queue)
           /\ again.kind = "item"
           /\ Popped(again.item, Tail(pd.queue), log \o PredEvents(pd.evals),
                     how, cb, chg)
    /\ UNCHANGED <<reactor, nregs, pval>>
    /\ UNCHANGED LibVars

\* lines 457-490 when the loop does not restart: the cell at the front is
\* popped and processed. `how` is what its callable does, `cb` which
\* caller-supplied function raises ("None", "set" or "changed"), `chg` the
\* answer of detect_change_fn
ProcessCell(how, cb, chg) ==
    /\ Visiting
    /\ LET pd == PushDependencies(reactor, queue, processed, pval)
       IN  /\ ~pd.abort
           /\ ~Restarts(queue[1], pd.queue)
           /\ Popped(pd.queue[1], Tail(pd.queue), log \o PredEvents(pd.evals),
                     how, cb, chg)
    /\ UNCHANGED <<reactor, nregs, pval>>
    /\ UNCHANGED LibVars

\* the cell's value is obtained: it is stored and its dependents are enqueued
ProcessReturns == \E chg \in BOOLEAN : ProcessCell("Return", "None", chg)

\* the cell's callable raises AbortFunction
ProcessAbortFunction == ProcessCell("AbortFunction", "None", TRUE)

\* the cell's callable raises AbortExecution or another exception, or
\* get_context_fn raises
ProcessAbortExecution ==
    \E how \in {"AbortExecution", "Exception", "GetRaises"} : ProcessCell(how, "None", TRUE)

\* set_context_fn raises
SetRaises == \E how \in {"Return", "AbortFunction"} : ProcessCell(how, "set", TRUE)

\* detect_change_fn raises
ChangedRaises == ProcessCell("Return", "changed", TRUE)

Next ==
    \/ AddInput
    \/ AddCompute
    \/ AddOutput
    \/ RunStart
    \/ RunReturns
    \/ PeekNone
    \/ DropProcessed
    \/ Backtrack
    \/ ProcessReturns
    \/ ProcessAbortFunction
    \/ ProcessAbortExecution
    \/ SetRaises
    \/ ChangedRaises

Spec == Init /\ [][Next]_vars

\* ------------------------------------------------ nothing registered

\* no cell registered, no run made and no library call made
AtRest ==
    /\ LibIdle
    /\ reactor = <<>>
    /\ nregs = 0
    /\ pval = [p \in Preds |-> "T"]
    /\ pc = "build"
    /\ exc = "None"
    /\ queue = <<>>
    /\ processed = {}
    /\ store = <<>>
    /\ log = <<>>

\* ---------------------------------------------- lazy cells (ro_types.py)

MaxCalls == 3

\* what an invocation of a caller's function may do
LazyOutcomes ==
    << Py("int", 1), Py("int", 2), Py("list", <<1>>), Str(<<"a">>), Raise,
       Lambda(<<Py("int", 5)>>),
       Lambda(<<Lambda(<<Py("int", 5)>>)>>),
       Lambda(<<Raise, Py("int", 5)>>) >>

\* the arguments given to Callable(...): functions of one outcome, functions
\* of two, and two objects that are not callable
LazyArgs ==
    LET N == Len(LazyOutcomes)
    IN  [i \in 1..N |-> Lambda(<<LazyOutcomes[i]>>)]
          \o [k \in 1..(N * N) |->
                 Lambda(<<LazyOutcomes[((k - 1) \div N) + 1], LazyOutcomes[((k - 1) % N) + 1]>>)]
          \o <<Py("int", 5), Str(<<"a">>)>>

\* x = Callable(fn)
NewCallable ==
    /\ call.op = "idle"
    /\ \E i \in DOMAIN LazyArgs :
          LET r == Callable__init__(LazyArgs[i])
          IN  /\ call' = [op |-> "Callable", n |-> 0]
              /\ ret' = r
              /\ _attrs' = IF r.exc = "None" THEN r.value.v ELSE _attrs
    /\ invoked' = 0
    /\ UNCHANGED <<__context__, _kv, CoreVars>>

\* x()
ResolveCall ==
    /\ call.op \in {"Callable", "__call__"}
    /\ callable(_attrs.callable)
    /\ call.n < MaxCalls
    /\ LET res == Callable__call__(_attrs, invoked)
       IN  /\ _attrs' = res.attrs
           /\ invoked' = res.invoked
           /\ ret' = res.ret
    /\ call' = [op |-> "__call__", n |-> call.n + 1]
    /\ UNCHANGED <<__context__, _kv, CoreVars>>

LazyNext == NewCallable \/ ResolveCall

LazySpec == AtRest /\ [][LazyNext]_vars

\* ------------------------------------------ the context store (context.py)

\* the keys callers use: names, an illegal name, and a key that is no string
CtxNames == <<Str(B_B), Str(Bu_B), Str(C), Str(<<"$">>), Py("int", 1)>>

CtxData == <<Py("int", 10), Py("int", 20), Py("list", <<1>>), Lambda(<<Py("int", 5)>>)>>

\* the arguments given to context(...)
CtxKeyArgs ==
    << NoneObject, Str(B_B), Str(C),
       Py("list", <<Str(C)>>), Py("list", <<Str(Bu_B), Str(C)>>),
       Py("tuple", <<Str(<<"b", ".", "b">>)>>), Py("list", <<Str(<<"$">>)>>),
       Py("int", 1) >>

\* set_context(key, data)
SetContext ==
    /\ \E i \in DOMAIN CtxNames, j \in DOMAIN CtxData :
          LET key == CtxNames[i]
              data == CtxData[j]
              res == set_context(__context__, key, data)
          IN  /\ call' = [op |-> "set_context", key |-> key, data |-> data, n |-> 0]
              /\ __context__' = res.ctx
              /\ ret' = res.ret
    /\ UNCHANGED <<_attrs, invoked, _kv, CoreVars>>

\* context(keys)
Context ==
    /\ \E i \in DOMAIN CtxKeyArgs :
          /\ call' = [op |-> "context", keys |-> CtxKeyArgs[i], n |-> 0]
          /\ ret' = context(__context__, CtxKeyArgs[i])
    /\ UNCHANGED <<__context__, _attrs, invoked, _kv, CoreVars>>

ContextNext == SetContext \/ Context

ContextSpec == AtRest /\ [][ContextNext]_vars

\* ---------------------------------------------- key formatting (utils.py)

MaxName == 3

Chars == {"a", "i", "f", "1", "-", ".", "/", "\\", "$"}

\* the arguments given to maybe_format_key: strings, and objects of other types
FormatArgs == {Str(s) : s \in UNION {[1..k -> Chars] : k \in 0..MaxName}}

OtherArgs == <<Py("int", 5), NoneObject, Py("list", <<1>>)>>

\* maybe_format_key(name)
Format ==
    /\ call.op = "maybe_format_key"
    /\ call.n = 0
    /\ ret' = maybe_format_key_call(call.name)
    /\ call' = [call EXCEPT !.n = 1]
    /\ UNCHANGED <<_attrs, invoked, __context__, _kv, CoreVars>>

\* maybe_format_key applied to the key the last call returned
FormatAgain ==
    /\ call.op = "maybe_format_key"
    /\ call.n = 1
    /\ ret.exc = "None"
    /\ ret' = maybe_format_key_call(ret.value)
    /\ call' = [op |-> "maybe_format_key", name |-> ret.value, n |-> 2]
    /\ UNCHANGED <<_attrs, invoked, __context__, _kv, CoreVars>>

UtilsInit ==
    /\ reactor = <<>>
    /\ nregs = 0
    /\ pval = [p \in Preds |-> "T"]
    /\ pc = "build"
    /\ exc = "None"
    /\ queue = <<>>
    /\ processed = {}
    /\ store = <<>>
    /\ log = <<>>
    /\ \/ \E x \in FormatArgs : call = [op |-> "maybe_format_key", name |-> x, n |-> 0]
       \/ \E i \in DOMAIN OtherArgs :
             call = [op |-> "maybe_format_key", name |-> OtherArgs[i], n |-> 0]
    /\ ret = NoResult
    /\ _attrs = NoCell
    /\ invoked = 0
    /\ __context__ = <<>>
    /\ _kv = <<>>

UtilsNext == Format \/ FormatAgain

UtilsSpec == UtilsInit /\ [][UtilsNext]_vars

\* --------------------- registration under names that share a key

MaxNamedRegs == 3

NamedInputCalls ==
    { [name |-> n, storable |-> Literal(v), predicates |-> p, persistent |-> TRUE] :
        n \in {B_B, Bu_B}, v \in {1, 2}, p \in {PyNone, PyList(<<"p1">>)} }

NamedComputeCalls ==
    { [name |-> n, function |-> Function(1), dependencies |-> d,
       predicates |-> PyList(<<"p1">>), persistent |-> TRUE] :
        n \in {<<"c", "-", "c">>, <<"c", ".", "c">>, <<"c", "_", "c">>},
        d \in {<<B_B>>, <<Bu_B, <<"a", "/", "a">>>>} }
    \cup
    { [name |-> Bu_B, function |-> Function(1), dependencies |-> <<<<"c", "_", "c">>>>,
       predicates |-> PyList(<<"p1">>), persistent |-> TRUE],
      [name |-> <<"c", "_", "c">>, function |-> Literal(1), dependencies |-> <<B_B>>,
       predicates |-> PyList(<<"p1">>), persistent |-> TRUE],
      [name |-> <<"c", "_", "c">>, function |-> Function(1),
       dependencies |-> <<Bu_B, <<"c", "_", "c">>>>,
       predicates |-> PyList(<<"p1">>), persistent |-> TRUE],
      [name |-> <<"1", "c">>, function |-> Function(1), dependencies |-> <<B_B>>,
       predicates |-> PyList(<<"p1">>), persistent |-> TRUE] }

\* add_input(name, storable, predicates, persistent)
AddInputNamed ==
    /\ nregs < MaxNamedRegs
    /\ \E c \in NamedInputCalls :
          LET res == _add_input(reactor, c.name, c.storable, c.predicates, c.persistent)
          IN  /\ reactor' = res.reactor
              /\ exc' = res.exc
              /\ call' = [op |-> "add_input", name |-> c.name, dependencies |-> <<>>,
                          n |-> nregs + 1]
    /\ nregs' = nregs + 1
    /\ UNCHANGED <<pval, pc, RunVars, ret, _attrs, invoked, __context__, _kv>>

\* add_compute(name, function, dependencies, predicates, persistent)
AddComputeNamed ==
    /\ nregs < MaxNamedRegs
    /\ \E c \in NamedComputeCalls :
          LET res == _add_compute_or_output(reactor, COMPUTE, c.name, c.function,
                                            c.dependencies, c.predicates, c.persistent)
          IN  /\ reactor' = res.reactor
              /\ exc' = res.exc
              /\ call' = [op |-> "add_compute", name |-> c.name,
                          dependencies |-> c.dependencies, n |-> nregs + 1]
    /\ nregs' = nregs + 1
    /\ UNCHANGED <<pval, pc, RunVars, ret, _attrs, invoked, __context__, _kv>>

RegNext == AddInputNamed \/ AddComputeNamed

RegSpec == AtRest /\ [][RegNext]_vars

\* ------------------------------- predicates and comparators (predicates.py)

MaxOperands == 3

Operands ==
    << Bool(TRUE), Bool(FALSE), Lambda(<<Bool(TRUE)>>), Lambda(<<Bool(FALSE)>>),
       Lambda(<<Lambda(<<Bool(TRUE)>>)>>),
       Lambda(<<Bool(TRUE), Bool(FALSE)>>), Lambda(<<Bool(FALSE), Bool(TRUE)>>) >>

\* the argument lists of up to MaxOperands operands, as positions in Operands
OperandLists == UNION {[1..k -> DOMAIN Operands] : k \in 0..MaxOperands}

OperandsAt(f) == [j \in DOMAIN f |-> Operands[f[j]]]

\* the strings compared: the members of _list and one that is not in it
Items == SeqElems(_list) \cup {"pineapple"}

\* the cell a constructor returned becomes the cell in hand
Constructed(r) ==
    /\ ret' = r
    /\ _attrs' = IF r.exc = "None" THEN r.value.v ELSE _attrs
    /\ invoked' = 0
    /\ UNCHANGED <<__context__, _kv, CoreVars>>

\* p_any(*predicates)
P_any ==
    /\ call.op = "idle"
    /\ \E f \in OperandLists :
          /\ call' = [op |-> "p_any", predicates |-> OperandsAt(f), n |-> 0]
          /\ Constructed(p_any(OperandsAt(f)))

\* p_all(*predicates)
P_all ==
    /\ call.op = "idle"
    /\ \E f \in OperandLists :
          /\ call' = [op |-> "p_all", predicates |-> OperandsAt(f), n |-> 0]
          /\ Constructed(p_all(OperandsAt(f)))

\* p_none(*predicates)
P_none ==
    /\ call.op = "idle"
    /\ \E f \in OperandLists :
          /\ call' = [op |-> "p_none", predicates |-> OperandsAt(f), n |-> 0]
          /\ Constructed(p_none(OperandsAt(f)))

\* p_not(predicate)
P_not ==
    /\ call.op = "idle"
    /\ \E i \in DOMAIN Operands :
          /\ call' = [op |-> "p_not", predicates |-> <<Operands[i]>>, n |-> 0]
          /\ Constructed(p_not(Operands[i]))

\* p = Comparitor(item)
NewComparitor ==
    /\ call.op = "idle"
    /\ \E item \in Items :
          /\ call' = [op |-> "Comparitor", item |-> item, n |-> 0]
          /\ ret' = Comparitor__init__(item)
    /\ UNCHANGED <<_attrs, invoked, __context__, _kv, CoreVars>>

Comparison(operator, self, other) ==
    CASE operator = "==" -> __eq__(self, other)
      [] operator = "!=" -> __ne__(self, other)
      [] operator = "<"  -> __lt__(self, other)
      [] operator = ">=" -> __ge__(self, other)
      [] operator = ">"  -> __gt__(self, other)
      [] operator = "<=" -> __le__(self, other)

\* p <operator> other
Compare ==
    /\ call.op = "Comparitor"
    /\ ret.exc = "None"
    /\ \E operator \in {"==", "!=", "<", ">=", ">", "<="}, other \in Items :
          /\ call' = [op |-> "compare", operator |-> operator, item |-> call.item,
                      other |-> other, n |-> 0]
          /\ Constructed(Comparison(operator, ret.value.v, other))

\* the two sides of a comparison of class P: values, and functions that
\* answer the same every time, differently the second time, or raise
POperands ==
    << Py("int", 1), Py("int", 2), Lambda(<<Py("int", 1)>>),
       Lambda(<<Py("int", 1), Py("int", 2)>>), Lambda(<<Py("int", 2), Py("int", 1)>>),
       Lambda(<<Raise>>) >>

\* P(item) <operator> other
PCompare ==
    /\ call.op = "idle"
    /\ \E operator \in {"==", "!=", "<", ">=", ">", "<="}, i, j \in DOMAIN POperands :
          /\ call' = [op |-> "P", operator |-> operator, item |-> POperands[i],
                      other |-> POperands[j], n |-> 0]
          /\ Constructed(P_compare(operator, POperands[i], POperands[j]))

\* x(), on the Callable a combinator or a comparison returned
ForceCell ==
    /\ call.op \in {"p_any", "p_all", "p_none", "p_not", "compare", "P"}
    /\ callable(_attrs.callable)
    /\ call.n < MaxCalls
    /\ LET res == Callable__call__(_attrs, invoked)
       IN  /\ _attrs' = res.attrs
           /\ invoked' = res.invoked
           /\ ret' = res.ret
    /\ call' = [call EXCEPT !.n = @ + 1]
    /\ UNCHANGED <<__context__, _kv, CoreVars>>

PredNext ==
    \/ P_any
    \/ P_all
    \/ P_none
    \/ P_not
    \/ NewComparitor
    \/ Compare
    \/ PCompare
    \/ ForceCell

PredSpec == AtRest /\ [][PredNext]_vars

\* --------------------------------- change detection (scratch/reactor.py)

\* the context a hook has built over the keys b_b, c and d: f gives, for
\* each of them, the position in CtxData of the data set for it, 0 when the
\* hook did not set the key
ContextOf(f) ==
    LET keys == <<Bu_B, C, D>>
        set == SelectSeq([i \in DOMAIN f |-> i], LAMBDA i : f[i] # 0)
    IN  [j \in DOMAIN set |->
            [key |-> Str(keys[set[j]]), value |-> resolve_value(CtxData[f[set[j]]])]]

\* a hook starts: the context is built anew, the kv store is what the last
\* hook left
NewHook ==
    /\ \E f \in [1..3 -> 0..Len(CtxData)] : __context__' = ContextOf(f)
    /\ call' = [op |-> "hook", n |-> 0]
    /\ ret' = NoResult
    /\ UNCHANGED <<_attrs, invoked, _kv, CoreVars>>

\* has_key_changed(key)
HasKeyChanged ==
    /\ call.op # "idle"
    /\ \E key \in {B_B, Bu_B, C, D, <<"a", "-", "a">>} :
          LET res == _has_key_changed(Str(key), _kv, __context__)
          IN  /\ call' = [op |-> "has_key_changed", key |-> Str(key), kv |-> _kv, n |-> 0]
              /\ _kv' = res.kv
              /\ ret' = res.ret
    /\ UNCHANGED <<_attrs, invoked, __context__, CoreVars>>

ChangeNext == NewHook \/ HasKeyChanged

ChangeSpec == AtRest /\ [][ChangeNext]_vars

\* ------------------------------------------- predicates that change their mind

\* a predicate is a caller-supplied callable, called anew at every resolution
\* (`p()` in _resolve_item): between two resolutions of a run its answer may
\* turn from true to false
PredicateChanges ==
    /\ pc = "running"
    /\ \E p \in Preds :
          /\ pval[p] = "T"
          /\ pval' = [pval EXCEPT ![p] = "F"]
    /\ UNCHANGED <<reactor, nregs, pc, exc, RunVars>>
    /\ UNCHANGED LibVars

DriftNext == Next \/ PredicateChanges

DriftSpec == Init /\ [][DriftNext]_vars

\* ------------------------------------------------------------------ claims

\* the positions of the log entries a step appends
NewEvents == (Len(log) + 1)..Len(log')

\* the positions of the log entries with operation op
EventsOf(op) == {i \in 1..Len(log) : log[i].op = op}

\* C1: whenever a cell's callable is invoked, every key in the dependency
\* list of the variant selected for it is already in the processed set.
C1_DependenciesProcessedFirst ==
    [][\A i \in NewEvents :
          log'[i].op = "invoke" => \A d \in SeqElems(log'[i].deps) : d \in processed]_vars

\* C1 witness: c ran with its three-dependency variant; d, which has no
\* dependencies and so is nobody's dependent, got processed by backtracking
C1_Witness ==
    \E i \in EventsOf("invoke") : log[i].key = C /\ log[i].deps = <<D, B, A>>

\* C2: within one run each cell is invoked at most once and set at most once,
\* even when the queue holds further entries for it.
C2_ProcessedAtMostOnce ==
    \A i, j \in 1..Len(log) :
        /\ log[i].op = log[j].op
        /\ log[i].op \in {"invoke", "set"}
        /\ maybe_format_key(log[i].key) = maybe_format_key(log[j].key)
        => i = j

\* C2 witness: several cells were processed and every entry left in the queue
\* is a further entry of a processed cell, about to be dropped
C2_Witness ==
    /\ pc = "running"
    /\ Len(queue) >= 2
    /\ \A i \in 1..Len(queue) : queue[i] # NoneItem /\ queue[i].key \in processed
    /\ Cardinality(EventsOf("invoke")) = Cardinality(processed)

\* the run returned normally
RunReturned == pc = "ended" /\ exc = "None"

\* every cell has an applicable variant under the current predicate values
AllResolvable ==
    \A i \in 1..Len(reactor) : _resolve_item(reactor[i], pval).kind = "item"

\* the keys reachable from the keys S along dependents edges, S included
RECURSIVE Closure(_, _)
Closure(r, S) ==
    LET T == S \cup UNION {ItemAt(r, k).dependents : k \in S}
    IN  IF T = S THEN S ELSE Closure(r, T)

ReachableFromInputs(r) == Closure(r, SeqElems(InputKeys(r)))

\* the value a cell has when every cell returns: the literal of an input,
\* and for a function its constant plus the values of the dependencies of
\* the selected variant that are stored (outputs are not)
RECURSIVE Expected(_, _, _), ExpectedSum(_, _, _)
Expected(r, pv, key) ==
    LET sel == _resolve_item(ItemAt(r, key), pv).item
    IN  IF sel.type_ = INPUT THEN sel.item.k
        ELSE sel.item.k
             + ExpectedSum(r, pv, {d \in SeqElems(sel.dependencies) :
                                      ItemAt(r, d).type_ # OUTPUT})

ExpectedSum(r, pv, keys) ==
    IF keys = {} THEN 0
    ELSE LET k == CHOOSE x \in keys : TRUE
         IN  Expected(r, pv, k) + ExpectedSum(r, pv, keys \ {k})

\* C3: full propagation. When every cell has an applicable variant, no
\* callable raised AbortFunction, detect_change_fn always answered true and the
\* run returned, every cell reachable from an input along dependents edges
\* was invoked exactly once, with its computed value as result, and every such
\* input or compute cell was set exactly once, to that value.
C3_FullPropagation ==
    (RunReturned /\ AllResolvable /\ EventsOf("AbortFunction") = {}
       /\ \A i \in EventsOf("changed") : log[i].val = 1)
    => \A k \in ReachableFromInputs(reactor) :
          LET v == Expected(reactor, pval, k)
              item == ItemAt(reactor, k)
          IN  /\ Cardinality({i \in EventsOf("invoke") : log[i].key = k}) = 1
              /\ \A i \in EventsOf("invoke") : log[i].key = k => log[i].val = v
              /\ item.type_ # OUTPUT =>
                    /\ Cardinality({i \in EventsOf("set") : log[i].key = item.name}) = 1
                    /\ \A i \in EventsOf("set") :
                          log[i].key = item.name => log[i].val = v
                    /\ k \in DOMAIN store /\ store[k] = v

\* C3 witness: a = 1, b = a + 1, c = a + b + 2 and the output d over b and c
\* have all run; the store holds a = 1, b = 2, c = 5 and d observed 7
C3_Witness ==
    /\ RunReturned /\ AllResolvable /\ EventsOf("AbortFunction") = {}
    /\ \A i \in EventsOf("changed") : log[i].val = 1
    /\ DOMAIN store = {A, B, C}
    /\ store[A] = 1 /\ store[B] = 2 /\ store[C] = 5
    /\ \E i \in EventsOf("invoke") : log[i].key = D /\ log[i].val = 7

\* the length of the longest chain of dependencies below key, over all
\* variants (defined for a reactor that passed _check_reactor)
RECURSIVE Height(_, _)
Height(r, key) ==
    LET below == {Height(r, d) : d \in SeqElems(VariantDeps(ItemAt(r, key)))}
    IN  IF below = {} THEN 0 ELSE 1 + CHOOSE h \in below : \A g \in below : g <= h

\* a measure of the work left in _run's loop: the number of unprocessed cells,
\* then how far the front of the queue is from a cell that can be processed
Unprocessed(r, proc) == Cardinality(KeysOf(r) \ proc)

FrontDistance(r, q, proc) ==
    IF q = <<>> \/ q[1] = NoneItem THEN 0
    ELSE IF q[1].key \in proc THEN Len(r) + 1 + Len(q)
    ELSE Height(r, q[1].key)

\* C4: termination. A run that has passed the check ends with an empty queue
\* or by raising AbortExecution (a caller-supplied set or changed that raises
\* instead of returning is outside the claim and excused).
C4_EndsEmptyOrAborted ==
    (pc = "ended" /\ exc \notin {"ReactorError", "SetError", "ChangedError"})
    => \/ exc = "None" /\ queue = <<>>
       \/ exc = "AbortExecution"

\* C4, the termination part: every iteration of the loop that does not end
\* the run decreases the measure, so dropping, backtracking and processing
\* cannot go on forever
C4_LoopDecreases ==
    [][(pc = "running" /\ pc' = "running")
       => \/ Unprocessed(reactor', processed') < Unprocessed(reactor, processed)
          \/ /\ Unprocessed(reactor', processed') = Unprocessed(reactor, processed)
             /\ FrontDistance(reactor', queue', processed')
                  < FrontDistance(reactor, queue, processed)]_vars

\* C4, the termination part: the loop is never stuck
C4_LoopNeverStuck == pc = "running" => ENABLED Next

\* the keys of the cells whose callable raised AbortFunction so far
AbortedKeys == {log[i].key : i \in EventsOf("AbortFunction")}

\* C5: in the iteration in which a cell's callable raises AbortFunction the
\* cell is added to processed, set(name, None) is called if and only if the
\* cell is not an output, changed is not called, nothing is enqueued (the
\* queue is the remaining queue) and, set having returned, the run goes on.
C5_AbortFunctionStopsCell ==
    [][\A i \in NewEvents :
          log'[i].op = "AbortFunction" =>
             LET item == ItemAt(reactor, log'[i].key)
                 sets == {j \in NewEvents : log'[j].op = "set"}
             IN  /\ item.key \in processed'
                 /\ item.type_ # OUTPUT =>
                       /\ Cardinality(sets) = 1
                       /\ \A j \in sets : log'[j].key = item.name
                                          /\ log'[j].val = NoneValue
                 /\ item.type_ = OUTPUT => sets = {}
                 /\ \A j \in NewEvents : log'[j].op # "changed"
                 /\ queue' = Tail(queue)
                 /\ exc' # "SetError" =>
                       /\ pc' = "running" /\ exc' = "None"
                       /\ item.type_ # OUTPUT =>
                             item.key \in DOMAIN store' /\ store'[item.key] = NoneValue]_vars

\* C5 witness: a cell with dependents and an output both raised AbortFunction
\* and the run returned normally
C5_Witness ==
    /\ RunReturned
    /\ \E k \in AbortedKeys : ItemAt(reactor, k).type_ = OUTPUT
    /\ \E k \in AbortedKeys : /\ ItemAt(reactor, k).type_ # OUTPUT
                              /\ ItemAt(reactor, k).dependents # {}
                              /\ store[k] = NoneValue

\* C6: branch-abort containment. A cell that has among the dependencies of
\* its selected variant a cell whose callable raised AbortFunction in this
\* run is never invoked and never set.
C6_AbortedBranchContained ==
    \A j \in 1..Len(log) :
        /\ log[j].op = "invoke" => SeqElems(log[j].deps) \cap AbortedKeys = {}
        /\ log[j].op = "set" =>
              LET sel == _resolve_item(ItemAt(reactor, maybe_format_key(log[j].key)), pval)
              IN  sel.kind = "item"
                  => SeqElems(sel.item.dependencies) \cap AbortedKeys = {}

\* C7: in the iteration in which a cell's callable raises AbortExecution or
\* any exception other than AbortFunction, _run raises AbortExecution, no set
\* or changed call is made and the store keeps what was set before; once
\* _run has raised, nothing is invoked, set or asked any more.
C7_FailureEndsRun ==
    [][/\ \A i \in NewEvents :
             log'[i].op \in {"AbortExecution", "Exception"} =>
                /\ pc' = "ended" /\ exc' = "AbortExecution"
                /\ \A j \in NewEvents : log'[j].op \notin {"set", "changed"}
                /\ \A j \in NewEvents : j > i => log'[j].op # "invoke"
                /\ store' = store
       /\ (pc = "ended" /\ exc = "AbortExecution") => (log' = log /\ store' = store)]_vars

\* C7 witness: a callable raised an exception that is no abort signal after
\* values had been set, with cells still queued
C7_Witness ==
    /\ pc = "ended" /\ exc = "AbortExecution"
    /\ EventsOf("Exception") # {}
    /\ EventsOf("set") # {} /\ store # <<>>
    /\ \E i \in 1..Len(queue) : queue[i] # NoneItem /\ queue[i].key \notin processed

\* C8: error boundary. Once evaluation has started (the check has passed),
\* the only exception that leaves _run is AbortExecution.
C8_OnlyAbortExecutionEscapes ==
    (pc = "ended" /\ exc \notin {"None", "ReactorError"}) => exc = "AbortExecution"

\* the cells for which no variant applies under the current predicate values
Unresolvable ==
    {reactor[i].key : i \in {j \in 1..Len(reactor) :
                                _resolve_item(reactor[j], pval).kind = "none"}}

\* C9: a cell for which no variant applies is absent from the run: nothing
\* stands for it in the queue, it is neither invoked nor set, and the run
\* does not fail at it.
C9_UnresolvableIsAbsent ==
    /\ \A i \in 1..Len(queue) : queue[i] # NoneItem
    /\ \A j \in 1..Len(log) :
          /\ log[j].op = "invoke" => log[j].key \notin Unresolvable
          /\ log[j].op = "set" => maybe_format_key(log[j].key) \notin Unresolvable
    /\ (pc = "ended" /\ Unresolvable # {}) => exc # "AttributeError"

\* the variant the resolution rule selects: the first, in registration
\* order, with a non-empty predicate list whose predicates are all true
Matching(variants, pv) ==
    {i \in 1..Len(variants) :
        /\ variants[i].predicates # <<>>
        /\ \A n \in 1..Len(variants[i].predicates) : pv[variants[i].predicates[n]] = "T"}

\* the variants with the defaults moved in front of, or behind, the others
DefaultsFirst(variants) ==
    SelectSeq(variants, LAMBDA v : v.predicates = <<>>)
        \o SelectSeq(variants, LAMBDA v : v.predicates # <<>>)

DefaultsLast(variants) ==
    SelectSeq(variants, LAMBDA v : v.predicates # <<>>)
        \o SelectSeq(variants, LAMBDA v : v.predicates = <<>>)

WithVariants(reactor_item, variants) == [reactor_item EXCEPT !.variants = variants]

\* C10: resolution rule, for every registered cell whose predicates do not
\* raise: the first variant with a non-empty, all-true predicate list is
\* selected, else a default; there is no result only if neither exists; the
\* result does not depend on where the defaults were registered; and it
\* carries the selected variant's item, dependencies and persistent flag.
C10_ResolutionRule ==
    \A n \in 1..Len(reactor) :
        LET reactor_item == reactor[n]
            variants == reactor_item.variants
            res == _resolve_item(reactor_item, pval)
            match == Matching(variants, pval)
            first == CHOOSE i \in match : \A j \in match : i <= j
            defaults == {i \in 1..Len(variants) : variants[i].predicates = <<>>}
            chosen == IF match # {} THEN {first} ELSE defaults
        IN  res.kind # "abort" =>
              /\ res.kind = "none" <=> chosen = {}
              /\ res.kind = "item" =>
                    /\ \E i \in chosen :
                          /\ res.item.item = variants[i].item
                          /\ res.item.dependencies = variants[i].dependencies
                          /\ res.item.persistent = variants[i].persistent
                    /\ res.item.type_ = reactor_item.type_
                    /\ res.item.key = reactor_item.key
                    /\ res.item.name = reactor_item.name
              /\ _resolve_item(WithVariants(reactor_item, DefaultsFirst(variants)), pval).item
                    = res.item
              /\ _resolve_item(WithVariants(reactor_item, DefaultsLast(variants)), pval).item
                    = res.item

\* C10 witness: the run queued a resolved to its predicated variant, which
\* was registered after the default and whose predicate is true
C10_Witness ==
    /\ pc = "running"
    /\ HasKey(reactor, A)
    /\ LET va == ItemAt(reactor, A).variants
       IN  /\ Len(va) = 2 /\ va[1].predicates = <<>> /\ va[2].predicates # <<>>
           /\ va[1].item # va[2].item
           /\ _resolve_item(ItemAt(reactor, A), pval).item.item = va[2].item
           /\ \E i \in 1..Len(queue) : queue[i] # NoneItem /\ queue[i].key = A
                                       /\ queue[i].item = va[2].item

\* predicate n of variant i is called by a resolution: the predicates before
\* it in its list are true, and every earlier predicated variant ended on a
\* false predicate
Evaluated(variants, pv, i, n) ==
    /\ \A m \in 1..(n - 1) : pv[variants[i].predicates[m]] = "T"
    /\ \A j \in 1..(i - 1) :
          \/ variants[j].predicates = <<>>
          \/ \E m \in 1..Len(variants[j].predicates) :
                /\ pv[variants[j].predicates[m]] = "F"
                /\ \A k \in 1..(m - 1) : pv[variants[j].predicates[k]] = "T"

\* the predicates a resolution calls, in the order of the calls
EvaluatedPredicates(variants, pv) ==
    Flatten([i \in 1..Len(variants) |->
                SubSeq(variants[i].predicates, 1,
                       Cardinality({n \in 1..Len(variants[i].predicates) :
                                       Evaluated(variants, pv, i, n)}))])

\* C11: a resolution calls the predicates in order up to the first that
\* raises or to the end of the first matching variant, and no further; it
\* raises AbortExecution exactly when the last predicate called raised, and
\* then yields no item. In a run the call of a predicate that raises is the
\* last call made: the run has ended with AbortExecution.
C11_PredicateRaiseAborts ==
    /\ \A x \in 1..Len(reactor) :
          LET res == _resolve_item(reactor[x], pval)
              n == Len(res.evals)
          IN  /\ res.evals = EvaluatedPredicates(reactor[x].variants, pval)
              /\ \A m \in 1..(n - 1) : pval[res.evals[m]] # "Raise"
              /\ res.kind = "abort" <=> (n > 0 /\ pval[res.evals[n]] = "Raise")
              /\ res.kind = "abort" => res.item = NoneItem
              /\ (res.kind = "item" /\ n > 0 /\ pval[res.evals[n]] = "T")
                    => \E i \in 1..Len(reactor[x].variants) :
                          /\ reactor[x].variants[i].predicates # <<>>
                          /\ res.item.item = reactor[x].variants[i].item
    /\ \A i \in EventsOf("pred") :
          pval[log[i].key[1]] = "Raise"
          => i = Len(log) /\ pc = "ended" /\ exc = "AbortExecution"

\* C11 witness: a has the variants [p1], [p2, p1] and a default; p1 was false,
\* p2 raised, and the run ended there without calling p1 again or using the
\* default
C11_Witness ==
    /\ pc = "ended" /\ exc = "AbortExecution"
    /\ HasKey(reactor, A)
    /\ LET va == ItemAt(reactor, A).variants
       IN  /\ Len(va) = 3
           /\ va[1].predicates = <<"p1">>
           /\ va[2].predicates = <<"p2", "p1">>
           /\ va[3].predicates = <<>>
    /\ Len(log) = 2
    /\ log[1].op = "pred" /\ log[1].key = <<"p1">>
    /\ log[2].op = "pred" /\ log[2].key = <<"p2">>
    /\ pval["p2"] = "Raise"
    /\ queue = <<>> /\ store = <<>>

\* the positions of the variants of an item that have no predicates
DefaultsOf(item) == {i \in 1..Len(item.variants) : item.variants[i].predicates = <<>>}

\* C12: single default. After any sequence of registration calls every item
\* holds at most one variant whose predicate list is empty.
C12_SingleDefault ==
    \A x \in 1..Len(reactor) : Cardinality(DefaultsOf(reactor[x])) <= 1

\* the outcome of add_compute (type_ COMPUTE) or add_output (OUTPUT) called
\* with the arguments c on the reactor r
AddFunction(r, type_, c) ==
    _add_compute_or_output(r, type_, c.name, c.function, c.dependencies,
                           c.predicates, c.persistent)

\* C13: type conflict. In every state reached by registration, add_input on
\* a key held by a compute or output, and add_compute / add_output on a key
\* held by another type, raise ReactorError and leave the reactor as it is.
C13_TypeConflict ==
    /\ \A c \in InputCalls :
          (HasKey(reactor, maybe_format_key(c.name))
             /\ ItemAt(reactor, maybe_format_key(c.name)).type_ # INPUT)
          => LET res == _add_input(reactor, c.name, c.storable, c.predicates, c.persistent)
             IN  res.exc = "ReactorError" /\ res.reactor = reactor
    /\ \A type_ \in {COMPUTE, OUTPUT} : \A c \in ComputeCalls \cup OutputCalls :
          (HasKey(reactor, maybe_format_key(c.name))
             /\ ItemAt(reactor, maybe_format_key(c.name)).type_ # type_)
          => LET res == AddFunction(reactor, type_, c)
             IN  res.exc = "ReactorError" /\ res.reactor = reactor

\* C14: self-dependency. Registration rejects every dependency list that
\* holds a name whose key is the cell's own key, so no variant of any item
\* lists the item's key among its dependencies.
C14_NoSelfDependency ==
    \A x \in 1..Len(reactor) : reactor[x].key \notin SeqElems(VariantDeps(reactor[x]))

\* the keys some variant of the item lists as a dependency
DirectDeps(item) ==
    UNION {SeqElems(item.variants[v].dependencies) : v \in 1..Len(item.variants)}

\* the dependency keys, of any variant of any item, that are no key of r
Missing(r) == {d \in UNION {DirectDeps(r[x]) : x \in 1..Len(r)} : ~HasKey(r, d)}

\* the _run call failed in _check_reactor
CheckFailed == pc = "ended" /\ exc = "ReactorError"

\* C15: _calculate_dependents collects an error if and only if some variant
\* of some item lists a dependency that is no key of the graph; the errors
\* it joins into its one ReactorError name every missing key; and
\* _check_reactor then raises ReactorError.
C15_DanglingDependencies ==
    LET cd == _calculate_dependents(reactor)
    IN  /\ cd.errors # <<>> <=> Missing(reactor) # {}
        /\ SeqElems(cd.errors) = Missing(reactor)
        /\ Missing(reactor) # {} => _check_reactor(reactor).exc = "ReactorError"
        /\ (pc # "build" /\ Missing(reactor) # {}) => CheckFailed

\* C15 witness: _run raised ReactorError on a graph in which three
\* different keys are missing
C15_Witness == CheckFailed /\ Cardinality(Missing(reactor)) = 3

\* the keys the items of the keys S depend on, directly or not
RECURSIVE DependsOn(_, _)
DependsOn(r, S) ==
    LET T == S \cup UNION {DirectDeps(r[x]) : x \in {y \in 1..Len(r) : r[y].key \in S}}
    IN  IF T = S THEN S ELSE DependsOn(r, T)

\* the keys that lie on a directed cycle of the dependency relation
OnCycle(r) ==
    {r[x].key : x \in {y \in 1..Len(r) :
                          \E d \in DirectDeps(r[y]) : r[y].key \in DependsOn(r, {d})}}

\* C16: cycle detection is exact. For a graph without missing dependencies
\* _check_circular_dependencies reports an error, and _check_reactor raises
\* ReactorError, if and only if the dependency relation has a directed cycle.
C16_CycleDetectionExact ==
    Missing(reactor) = {} =>
        LET cd == _calculate_dependents(reactor)
        IN  /\ _check_circular_dependencies(cd.reactor) # {} <=> OnCycle(reactor) # {}
            /\ _check_reactor(reactor).exc = "ReactorError" <=> OnCycle(reactor) # {}
            /\ pc # "build" => (CheckFailed <=> OnCycle(reactor) # {})

\* C16 witness: _run raised ReactorError on a graph without missing
\* dependencies whose cycle cannot be reached from the first-registered item
C16_Witness ==
    /\ CheckFailed
    /\ Missing(reactor) = {}
    /\ OnCycle(reactor) # {}
    /\ Len(reactor) >= 2
    /\ reactor[1].dependents = {}
    /\ reactor[1].key \notin OnCycle(reactor)

\* C17: the check precedes evaluation. A _run call on a graph with a missing
\* dependency or a cycle raises ReactorError with no predicate evaluated, no
\* callable invoked and none of get, set, changed called.
C17_CheckBeforeEvaluation ==
    [][(pc = "build" /\ pc' # "build"
          /\ (Missing(reactor) # {} \/ OnCycle(reactor) # {}))
       => /\ pc' = "ended" /\ exc' = "ReactorError"
          /\ log' = <<>> /\ store' = <<>> /\ queue' = <<>> /\ processed' = {}]_vars

\* C17 witness: _run raised ReactorError without a call although the graph
\* has an input with a predicate, the first thing _run would evaluate
C17_Witness ==
    /\ CheckFailed
    /\ log = <<>>
    /\ \E x \in 1..Len(reactor) :
          /\ reactor[x].type_ = INPUT
          /\ reactor[x].variants[1].predicates # <<>>

\* _check_reactor has succeeded on the reactor
CheckPassed == pc # "build" /\ ~CheckFailed

\* C18: after a successful check, y is in the dependents of x if and only if
\* some variant of y lists x as a dependency, and checking again leaves the
\* reactor as it is.
C18_DependentsExact ==
    CheckPassed =>
        /\ \A x, y \in 1..Len(reactor) :
              reactor[y].key \in reactor[x].dependents
              <=> \E v \in 1..Len(reactor[y].variants) :
                     reactor[x].key \in SeqElems(reactor[y].variants[v].dependencies)
        /\ \A x \in 1..Len(reactor) : reactor[x].dependents \subseteq KeysOf(reactor)
        /\ _calculate_dependents(reactor) = [reactor |-> reactor, errors |-> <<>>]
        /\ _check_reactor(reactor) = [reactor |-> reactor, exc |-> "None"]

\* C18 witness: the check passed on a, b over a, c over a and b, d over b and
\* c: a has exactly b and c as dependents and d has none
C18_Witness ==
    /\ CheckPassed
    /\ KeysOf(reactor) = {A, B, C, D}
    /\ ItemAt(reactor, A).dependents = {B, C}
    /\ ItemAt(reactor, B).dependents = {C, D}
    /\ ItemAt(reactor, C).dependents = {D}
    /\ ItemAt(reactor, D).dependents = {}

\* the log entries a step appends that have operation op
NewEventsOf(op) == {i \in NewEvents : log'[i].op = op}

\* the step processed the cell at the front of the queue successfully: its
\* callable was invoked and returned, and set and changed returned
ProcessedFront ==
    /\ pc = "running"
    /\ NewEventsOf("invoke") # {}
    /\ NewEventsOf("AbortFunction") = {}
    /\ NewEventsOf("AbortExecution") = {}
    /\ NewEventsOf("Exception") = {}
    /\ exc' \notin {"SetError", "ChangedError"}

\* C19: propagation condition. When the cell at the front is processed
\* successfully, changed is asked exactly for a persistent cell that is not
\* an output; if the selected variant is not persistent, or the cell is an
\* output, or changed answered true, the resolved forms of its dependents that
\* are not processed are appended to the back of the queue, once each (unless
\* a predicate of theirs raises); otherwise nothing is enqueued.
C19_PropagationCondition ==
    [][ProcessedFront =>
          LET cell == queue[1]
              asked == NewEventsOf("changed")
              cond == \/ ~cell.persistent
                      \/ cell.type_ = OUTPUT
                      \/ \E i \in asked : log'[i].val = 1
              due == IF cond THEN {d \in cell.dependents : d \notin processed'} ELSE {}
              added == SubSeq(queue', Len(queue), Len(queue'))
          IN  /\ asked # {} <=> (cell.persistent /\ cell.type_ # OUTPUT)
              /\ \A i \in asked : log'[i].key = cell.name
              /\ cell.key \in processed'
              /\ exc' = "AbortExecution" <=>
                    \E d \in due : _resolve_item(ItemAt(reactor, d), pval).kind = "abort"
              /\ exc' # "AbortExecution" =>
                    /\ pc' = "running"
                    /\ Len(queue') = Len(queue) - 1 + Cardinality(due)
                    /\ SubSeq(queue', 1, Len(queue) - 1) = Tail(queue)
                    /\ \A d \in due :
                          \E i \in 1..Len(added) :
                             added[i] = _resolve_item(ItemAt(reactor, d), pval).item]_vars

\* C19 witness: b, persistent and with dependents waiting, was processed and
\* changed answered false; a, whose variant is not persistent, had its
\* dependents enqueued without changed being asked
C19_Witness ==
    /\ \E i \in EventsOf("changed") : log[i].key = B /\ log[i].val = 0
    /\ B \in processed
    /\ HasKey(reactor, B) /\ ItemAt(reactor, B).dependents \ processed # {}
    /\ \A i \in EventsOf("changed") : log[i].key # A
    /\ A \in processed
    /\ HasKey(reactor, A) /\ ItemAt(reactor, A).dependents # {}
    /\ RunReturned

\* the log entries with operation op for the cell of key k
EventsFor(op, k) == {i \in EventsOf(op) : maybe_format_key(log[i].key) = k}

\* C20: set is never called for an output, and every input or compute cell
\* that is processed has exactly one set call: with the value its callable
\* returned, or with None when it raised AbortFunction.
C20_OutputsNeverSet ==
    /\ \A i \in EventsOf("set") :
          ItemAt(reactor, maybe_format_key(log[i].key)).type_ # OUTPUT
    /\ \A k \in processed :
          IF ItemAt(reactor, k).type_ = OUTPUT
          THEN EventsFor("set", k) = {}
          ELSE /\ Cardinality(EventsFor("set", k)) = 1
               /\ \A i \in EventsFor("set", k) :
                     /\ \A j \in EventsFor("invoke", k) : log[i].val = log[j].val
                     /\ EventsFor("AbortFunction", k) # {} <=> log[i].val = NoneValue

\* C20 witness: the run returned after an output that returned, a compute
\* that raised AbortFunction and was set to None, and an input set to 1
C20_Witness ==
    /\ RunReturned
    /\ \E k \in processed :
          /\ ItemAt(reactor, k).type_ = OUTPUT
          /\ EventsFor("invoke", k) # {}
          /\ EventsFor("AbortFunction", k) = {}
    /\ \E k \in processed :
          /\ ItemAt(reactor, k).type_ = COMPUTE
          /\ EventsFor("AbortFunction", k) # {}
          /\ store[k] = NoneValue
    /\ A \in processed /\ store[A] = 1

\* the position of the variant the resolution rule selects for an item that
\* has one: the first matching predicated variant, else the last default
SelectedVariant(item, pv) ==
    LET match == Matching(item.variants, pv)
    IN  IF match # {} THEN CHOOSE i \in match : \A j \in match : i <= j
        ELSE CHOOSE i \in DefaultsOf(item) : \A j \in DefaultsOf(item) : j <= i

\* C21: get is never called for an input; for a compute or output it is
\* called, right before the function, with exactly the dependency list of the
\* selected variant, and the function's result is its constant plus the
\* values get returns for those keys and no others.
C21_ContextOfSelectedVariant ==
    /\ \A i \in EventsOf("get") :
          LET item == ItemAt(reactor, log[i].key)
          IN  /\ item.type_ # INPUT
              /\ log[i].deps = item.variants[SelectedVariant(item, pval)].dependencies
    /\ \A j \in EventsOf("invoke") :
          LET item == ItemAt(reactor, log[j].key)
              select == item.variants[SelectedVariant(item, pval)]
              ctx == get_context_fn(store, select.dependencies)
              returned == j = Len(log) \/ log[j + 1].op \notin
                              {"AbortFunction", "AbortExecution", "Exception"}
          IN  IF item.type_ = INPUT
              THEN j = 1 \/ log[j - 1].op # "get" \/ log[j - 1].key # item.key
              ELSE /\ j > 1
                   /\ log[j - 1] = Ev("get", item.key, select.dependencies, 0)
                   /\ returned => log[j].val = select.item.k + SumOf(ctx, DOMAIN ctx)

\* C21 witness: b has a default over a and a selected variant over d; its
\* function was called with the context of d alone (2 + 4), a being stored
C21_Witness ==
    /\ HasKey(reactor, B) /\ Len(ItemAt(reactor, B).variants) = 2
    /\ A \in DOMAIN store /\ D \in DOMAIN store
    /\ \E i \in EventsOf("get") : log[i].key = B /\ log[i].deps = <<D>>
    /\ \E j \in EventsOf("invoke") : log[j].key = B /\ log[j].val = 6

\* C22: whenever get is called in a run, every key it requests was written
\* by an earlier set call of the run.
C22_GetAfterSet ==
    \A i \in EventsOf("get") :
        \A d \in SeqElems(log[i].deps) :
            \E j \in 1..(i - 1) : log[j].op = "set" /\ maybe_format_key(log[j].key) = d

\* two outcomes of a call are the same outcome
SameResult(r1, r2) == r1.exc = r2.exc /\ SameObject(r1.value, r2.value)

\* C23: lazy-cell memoization.  Once a cell has been called, its underlying
\* callable has been invoked exactly once, however many calls were made; a
\* call after the first invokes nothing, leaves the cell as it was and
\* returns the cached result, which is what the first call returned.
C23_ComputedOnce ==
    [][ (call'.op = "__call__" /\ call'.n = call.n + 1)
          => /\ invoked' = 1
             /\ call.op = "__call__"
                  => /\ invoked' = invoked
                     /\ _attrs' = _attrs
                     /\ SameResult(ret', Returned(_attrs.result))
                     /\ ret.exc = "None" => SameResult(ret', ret) ]_vars

\* the third call of a cell over a function that would return 1 and then 2:
\* it returned 1 and the function was invoked once
C23_Witness ==
    /\ call.op = "__call__"
    /\ call.n = 3
    /\ Len(_attrs.callable.v.outs) = 2
    /\ SameObject(_attrs.callable.v.outs[1], Py("int", 1))
    /\ SameObject(_attrs.callable.v.outs[2], Py("int", 2))
    /\ invoked = 1
    /\ SameResult(ret, Returned(Py("int", 1)))

\* every invocation of the function fn raises
AlwaysRaises(fn) ==
    /\ fn.type = "function"
    /\ fn.v.body = "outcomes"
    /\ \A i \in DOMAIN fn.v.outs : fn.v.outs[i].type = "raise"

\* C24: when the computation of a cell raises, the exception reaches the
\* caller and the cell is not left marked as resolved; a later call does not
\* return a cached value in its place, so every call of a cell whose function
\* always raises raises.
C24_FailureNotCached ==
    call.op = "__call__"
      => /\ ret.exc # "None" => ~_attrs.called
         /\ AlwaysRaises(_attrs.callable) => ret.exc = "Exception"

\* the canonical form of a name: each '-' and '.' replaced by '_', each '/'
\* and '\' by '__'
RECURSIVE Canonical(_)
Canonical(s) ==
    IF s = <<>> THEN <<>>
    ELSE (IF Head(s) \in {"-", "."} THEN <<"_">>
          ELSE IF Head(s) \in {"/", "\\"} THEN <<"_", "_">>
          ELSE <<Head(s)>>) \o Canonical(Tail(s))

\* the key under which the store keeps the object key
CanonicalKey(key) == IF key.type = "str" THEN Str(Canonical(key.v)) ELSE key

\* C25: the top-level context is append-only.  No step removes, moves or
\* changes an entry of the store, so every key keeps the value of its first
\* successful set; set_context on a key whose canonical form is already
\* present raises KeyExists and leaves the store as it was.
C25_AppendOnly ==
    [][ /\ Len(__context__') >= Len(__context__)
        /\ \A i \in 1..Len(__context__) :
              /\ SameObject(__context__'[i].key, __context__[i].key)
              /\ SameObject(__context__'[i].value, __context__[i].value)
        /\ (call'.op = "set_context" /\ InContext(__context__, CanonicalKey(call'.key)))
              => /\ ret'.exc = "KeyExists"
                 /\ Len(__context__') = Len(__context__) ]_vars

\* 'b_b' holds 10, and set_context('b_b', 20) raised KeyExists
C25_Witness ==
    /\ call.op = "set_context"
    /\ SameObject(call.key, Str(Bu_B))
    /\ SameObject(call.data, Py("int", 20))
    /\ ret.exc = "KeyExists"
    /\ Len(__context__) = 1
    /\ SameObject(__context__[1].key, Str(Bu_B))
    /\ SameObject(__context__[1].value, Py("int", 10))

\* the names requested of context(keys): one string, or the members of a sequence
Requested(keys) == IF keys.type = "str" THEN <<keys>> ELSE keys.v

\* C26: context(keys), for keys a string or a sequence of names, returns a
\* view that holds exactly the requested keys, and raises KeyError when a
\* requested key is not in the store.
C26_FilteredView ==
    (/\ call.op = "context"
     /\ call.keys.type \in {"str", "list", "tuple"}
     /\ \A i \in DOMAIN Requested(call.keys) : ~FormatRaises(Requested(call.keys)[i].v))
      => LET requested == Requested(call.keys)
         IN  IF \A i \in DOMAIN requested :
                    InContext(__context__, CanonicalKey(requested[i]))
             THEN /\ ret.exc = "None"
                  /\ ret.value.type = "AttrDict"
                  /\ {ret.value.v[i].key.v : i \in DOMAIN ret.value.v}
                        = {Canonical(requested[i].v) : i \in DOMAIN requested}
             ELSE ret.exc = "KeyError"

Legal(key) == IsIdentifier(key) /\ ~IsKeyword(key)

\* C27: key canonicalization.  maybe_format_key returns an object that is
\* not a string unchanged; for a string it either raises AttributeError, when
\* the canonical form is not a legal identifier or is a keyword, or returns
\* the canonical form, which is a legal identifier and no keyword; applied to
\* a key it returned, it returns that key again.
C27_Canonicalization ==
    (call.op = "maybe_format_key" /\ call.n >= 1)
      => IF call.name.type # "str"
         THEN SameResult(ret, Returned(call.name))
         ELSE /\ ret.exc \in {"None", "AttributeError"}
              /\ ret.exc = "None"
                   => /\ ret.value.type = "str"
                      /\ ret.value.v = Canonical(call.name.v)
                      /\ Legal(ret.value.v)
              /\ ret.exc = "AttributeError" => ~Legal(Canonical(call.name.v))
              /\ call.n = 2 => SameResult(ret, Returned(call.name))

\* maybe_format_key('/-a') returned '___a'
C27_Witness ==
    /\ call.op = "maybe_format_key"
    /\ call.n = 1
    /\ call.name.type = "str"
    /\ call.name.v = <<"/", "-", "a">>
    /\ SameResult(ret, Returned(Str(<<"_", "_", "_", "a">>)))

\* C28: a registration that succeeds puts its variant last in the item whose
\* key is the canonical form of the name given: an item already registered
\* under that key, whatever name it was registered with, keeps its place, its
\* name and its earlier variants in order; a new item goes last and takes the
\* name as given.  The variant holds the canonical forms of the dependency
\* names, and no other item changes.
C28_SameKeyAccumulates ==
    [][ (nregs' = nregs + 1 /\ exc' = "None")
          => LET key == Canonical(call'.name)
                 deps == [i \in DOMAIN call'.dependencies |-> Canonical(call'.dependencies[i])]
             IN  /\ HasKey(reactor', key)
                 /\ LET new == ItemAt(reactor', key)
                        v == new.variants[Len(new.variants)]
                    IN  /\ v.dependencies = deps
                        /\ IF HasKey(reactor, key)
                           THEN /\ Len(reactor') = Len(reactor)
                                /\ IndexOf(reactor', key) = IndexOf(reactor, key)
                                /\ new.name = ItemAt(reactor, key).name
                                /\ new.variants = Append(ItemAt(reactor, key).variants, v)
                           ELSE /\ Len(reactor') = Len(reactor) + 1
                                /\ IndexOf(reactor', key) = Len(reactor')
                                /\ new.name = call'.name
                                /\ new.variants = <<v>>
                 /\ \A i \in 1..Len(reactor) : reactor[i].key # key => reactor'[i] = reactor[i]
                 /\ \A i \in 1..Len(reactor') :
                       \A j \in 1..Len(reactor') : reactor'[i].key = reactor'[j].key => i = j ]_vars

\* 'c-c', 'c.c' and 'c_c' were registered in that order: one item c_c, named
\* 'c-c', with three variants, the last one over b_b and a__a
C28_Witness ==
    /\ nregs = 3
    /\ Len(reactor) = 1
    /\ reactor[1].key = <<"c", "_", "c">>
    /\ reactor[1].name = <<"c", "-", "c">>
    /\ Len(reactor[1].variants) = 3
    /\ reactor[1].variants[3].dependencies = <<Bu_B, <<"a", "_", "_", "a">>>>
    /\ call.name = <<"c", "_", "c">>

\* the truth of an operand: a boolean, or what a thunk finally yields
RECURSIVE TruthOf(_)
TruthOf(p) ==
    IF p.type = "bool" THEN p.v ELSE TruthOf(p.v.outs[1])

C30_FailsAtConstruction ==
    /\ (call.op = "Comparitor" /\ ~InList(call.item)) => ret.exc = "KeyError"
    /\ (call.op = "compare" /\ ~InList(call.other))
          => /\ call.n = 0
             /\ ret.exc = "KeyError"

\* the fingerprint of the value the context holds for key: the hash of its
\* serialized form, None when the context holds no such key
Fingerprint(ctx, key) ==
    LET k == maybe_format_key_scratch(key)
    IN  IF InContext(ctx, k) THEN Py("md5", JsonOf(ValueIn(ctx, k))) ELSE NoneObject

\* the fingerprint the kv store kv records for key, None when it records none
Recorded(kv, key) ==
    LET fk == Str(<<"charms.declarative.context.">> \o maybe_format_key_scratch(key).v)
    IN  IF InContext(kv, fk) THEN ValueIn(kv, fk) ELSE NoneObject

\* C31: has_key_changed(key) returns, and returns true exactly when the
\* fingerprint of the key's current value differs from the one the kv store
\* recorded before the call (or none was recorded); afterwards the store
\* records the current fingerprint, or nothing when the value is absent.
C31_ChangeDetection ==
    call.op = "has_key_changed"
      => /\ ret.exc = "None"
         /\ ret.value.type = "bool"
         /\ ret.value.v = ~SameObject(Fingerprint(__context__, call.key),
                                      Recorded(call.kv, call.key))
         /\ SameObject(Recorded(_kv, call.key), Fingerprint(__context__, call.key))

\* C32: a registration call that fails (second default, type conflict,
\* self-dependency, non-callable function, or a name that cannot be
\* canonicalized) leaves the graph exactly as it was: no item is created and
\* no variant is appended.
C32_FailedRegistrationFrame ==
    [][(nregs' # nregs /\ exc' # "None") => reactor' = reactor]_vars

\* a registration has just failed on a type conflict with an existing cell
C32_Witness ==
    /\ call.op = "add_input"
    /\ exc = "ReactorError"
    /\ reactor # <<>>

\* C33: when the cell at the front of the queue has unprocessed dependencies
\* (and no predicate raises while they are resolved), the resolved form of
\* each of them is put in front of the queue exactly once, in the order of
\* the dependency list (as listed, or as pushing them one by one leaves
\* them), the peeked cell stays in the queue behind them, and nothing is
\* processed in that step.
C33_BacktrackPushesOnce ==
    [][(/\ Visiting
        /\ _find_unprocessed_dependencies(processed, queue[1]) # <<>>
        /\ pc' = "running")
          => LET items == ResolveKeys(reactor,
                              _find_unprocessed_dependencies(processed, queue[1]),
                              pval).items
             IN  /\ queue' \in {items \o queue, Reverse(items) \o queue}
                 /\ processed' = processed
                 /\ store' = store]_vars

\* the step runs the resolved item cell: the log goes on with the calls
\* _process_item makes for it, and, when the cell returned and the run goes
\* on, detect_change_fn was consulted exactly when cell is persistent and no
\* output
RunsAs(cell) ==
    \E how \in BehavioursOf(cell) :
       LET ev == ProcessEvents(cell, how, _process_item(cell, store, how))
           n == Len(log) + Len(ev)
       IN  /\ Len(log') >= n
           /\ SubSeq(log', Len(log) + 1, n) = ev
           /\ (how = "Return" /\ pc' = "running")
                 => (CallsChanged(cell)
                        <=> \E i \in n + 1..Len(log') : log'[i].op = "changed")

\* e is what resolving its cell against the present predicate values gives
ResolvedNow(e) ==
    \E i \in 1..Len(reactor) : e = _resolve_item(reactor[i], pval).item

InputsLeft == SelectSeq(InputKeys(reactor), LAMBDA k : k \notin processed)

\* the positions of the log at which a cell of type t was invoked
InvokedAt(t) ==
    {i \in 1..Len(log) : /\ log[i].op = "invoke"
                         /\ HasKey(reactor, log[i].key)
                         /\ ItemAt(reactor, log[i].key).type_ = t}

\* C36: in a run the inputs are processed in registration order, and all of
\* them before a compute or output function is invoked; the predicates of
\* the inputs are evaluated before the first set call, and an input is never
\* put on the queue again: the queue holds no input but the unprocessed ones
\* of the initial queue, at its front.
C36_InputsFirst ==
    pc \in {"running", "ended"}
      => /\ \A i \in InvokedAt(COMPUTE) \cup InvokedAt(OUTPUT) :
               \A k \in SeqElems(InputKeys(reactor)) :
                  \E j \in InvokedAt(INPUT) : j < i /\ log[j].key = k
         /\ \A i, j \in InvokedAt(INPUT) :
               i < j => \E m, n \in 1..Len(InputKeys(reactor)) :
                           /\ m < n
                           /\ InputKeys(reactor)[m] = log[i].key
                           /\ InputKeys(reactor)[n] = log[j].key
         /\ (\E i \in 1..Len(log) : log[i].op = "set")
               => LET evals == PredEvents(
                                 _initialise_queue_with_inputs(reactor, pval).evals)
                  IN  /\ Len(log) >= Len(evals)
                      /\ SubSeq(log, 1, Len(evals)) = evals
         /\ pc = "running"
               => /\ Len(queue) >= Len(InputsLeft)
                  /\ \A i \in 1..Len(queue) :
                        IF i <= Len(InputsLeft)
                        THEN \/ queue[i] = NoneItem
                             \/ queue[i].type_ = INPUT /\ queue[i].key = InputsLeft[i]
                        ELSE queue[i].type_ # INPUT

\* a run has ended in which the output d was invoked after the inputs a and
\* b, processed in that order
C36_Witness ==
    /\ pc = "ended"
    /\ exc = "None"
    /\ InputKeys(reactor) = <<A, B>>
    /\ InvokedAt(OUTPUT) # {}
    /\ Cardinality(InvokedAt(INPUT)) = 2

\* what the run's log tells of the cell functions and of detect_change_fn:
\* the function of cell k raised AbortFunction, detect_change_fn answered
\* true for cell k
Aborted(k) == \E i \in EventsOf("AbortFunction") : log[i].key = k

AnsweredChanged(k) ==
    \E i \in EventsOf("changed") : log[i].key = ItemAt(reactor, k).name /\ log[i].val = 1

\* the variant of cell k under the predicate values of the run
Sel(k) == _resolve_item(ItemAt(reactor, k), pval).item

\* the cells a run has to process, whatever the order: the inputs, the
\* dependents of a cell that returned and propagates, and the dependencies
\* of the selected variant of a cell to process
RECURSIVE RefProcessed(_)
RefProcessed(S) ==
    LET there == {k \in S : Sel(k) # NoneItem}
        T == S \cup UNION {Sel(k).dependents :
                             k \in {c \in there : /\ ~Aborted(c)
                                                  /\ Propagates(Sel(c), AnsweredChanged(c))}}
               \cup UNION {SeqElems(Sel(k).dependencies) : k \in there}
    IN  IF T = S THEN S ELSE RefProcessed(T)

\* the value of cell k, whatever the order: None when its function raised
\* AbortFunction, else its literal or its constant plus the values of the
\* dependencies that are stored and not None
RECURSIVE RefValue(_), RefSum(_)
RefValue(k) ==
    IF Aborted(k) THEN NoneValue
    ELSE IF Sel(k).type_ = INPUT THEN Sel(k).item.k
    ELSE Sel(k).item.k + RefSum({d \in SeqElems(Sel(k).dependencies) :
                                   ItemAt(reactor, d).type_ # OUTPUT})

RefSum(keys) ==
    IF keys = {} THEN 0
    ELSE LET k == CHOOSE x \in keys : TRUE
         IN  (IF RefValue(k) = NoneValue THEN 0 ELSE RefValue(k)) + RefSum(keys \ {k})

\* C37: determinism. The cells a returned run has processed and the set of
\* (name, value) set calls it has made are functions of the graph, the
\* predicate values, what the cell functions do and what detect_change_fn
\* answers: the order in which the dependents sets were iterated does not
\* enter.
C37_OrderIndependent ==
    RunReturned
      => /\ processed = RefProcessed(SeqElems(InputKeys(reactor)))
         /\ {<<log[i].key, log[i].val>> : i \in EventsOf("set")}
               = {<<ItemAt(reactor, k).name, RefValue(k)>> :
                     k \in {c \in processed : ItemAt(reactor, c).type_ # OUTPUT}}

\* a run has returned in which the two dependents of a cell that propagated
\* were enqueued, in one of the two orders
C37_Witness ==
    /\ RunReturned
    /\ \E k \in processed :
          /\ Cardinality(Sel(k).dependents) >= 2
          /\ ~Aborted(k)
          /\ Propagates(Sel(k), AnsweredChanged(k))
          /\ Sel(k).dependents \subseteq processed

\* detect_change_fn has answered false whenever it was asked, and the variant
\* selected for every cell that has one is persistent
NothingChanges ==
    /\ \A i \in EventsOf("changed") : log[i].val = 0
    /\ \A i \in 1..Len(reactor) :
          Sel(reactor[i].key) # NoneItem => Sel(reactor[i].key).persistent

\* C38: when detect_change_fn answers false for every cell and every
\* selected variant is persistent, no compute or output function is invoked
\* and get is never called; a run that returns has invoked and set exactly
\* the inputs.
C38_QuiescentRun ==
    (pc \in {"running", "ended"} /\ NothingChanges)
      => /\ InvokedAt(COMPUTE) \cup InvokedAt(OUTPUT) = {}
         /\ EventsOf("get") = {}
         /\ RunReturned
               => /\ {log[i].key : i \in InvokedAt(INPUT)} = SeqElems(InputKeys(reactor))
                  /\ {log[i].key : i \in EventsOf("set")}
                        = {ItemAt(reactor, k).name : k \in SeqElems(InputKeys(reactor))}
                  /\ processed = SeqElems(InputKeys(reactor))

\* a run over the inputs a and b and the compute c over them has returned
\* with nothing changed: a and b were set, c was not invoked
C38_Witness ==
    /\ RunReturned
    /\ NothingChanges
    /\ InputKeys(reactor) = <<A, B>>
    /\ HasKey(reactor, C)
    /\ ItemAt(reactor, C).type_ = COMPUTE
    /\ Cardinality(EventsOf("set")) = 2
    /\ Cardinality(EventsOf("changed")) = 2

\* C39: detect_change_fn is called only for a cell that has been processed,
\* whose function returned (it did not raise AbortFunction), that is no
\* output and whose selected variant is persistent; it is called at most
\* once for a cell, and only after set_context_fn was called for that cell.
C39_ChangedAfterSet ==
    \A i \in EventsOf("changed") :
       /\ \E k \in processed :
             /\ ItemAt(reactor, k).name = log[i].key
             /\ ItemAt(reactor, k).type_ # OUTPUT
             /\ Sel(k) # NoneItem
             /\ Sel(k).persistent
             /\ ~Aborted(k)
             /\ \E j \in InvokedAt(ItemAt(reactor, k).type_) : j < i /\ log[j].key = k
       /\ \E j \in EventsOf("set") : j < i /\ log[j].key = log[i].key
       /\ \A j \in EventsOf("changed") : log[j].key = log[i].key => j = i

\* detect_change_fn has been called for the compute b after b was set, and
\* not for a cell of the same run whose function raised AbortFunction
C39_Witness ==
    /\ \E i \in EventsOf("changed") : log[i].key = B
    /\ HasKey(reactor, B)
    /\ ItemAt(reactor, B).type_ = COMPUTE
    /\ \E k \in processed : Aborted(k)

\* the keys of the cells that are in the queue, or were popped from it (a
\* cell popped is processed, or its function ended the run)
QueuedKeys ==
    {queue[i].key : i \in {j \in 1..Len(queue) : queue[j] # NoneItem}}
       \cup processed \cup {log[i].key : i \in EventsOf("get")}

\* C40: a compute or output cell is invoked only if it is a dependent of a
\* cell processed before it whose function returned and which propagated, or
\* a dependency of the selected variant of a cell that was put on the queue
\* and had come to its front (it was popped since, or is still in the queue
\* behind the dependencies pushed for it). A compute or output cell that no variant
\* of any cell names as a dependency and that depends on nothing is never
\* invoked.
C40_InvokedOnlyIfReached ==
    \A i \in InvokedAt(COMPUTE) \cup InvokedAt(OUTPUT) :
       /\ \/ \E c \in processed \ {log[i].key} :
                /\ Sel(c) # NoneItem
                /\ log[i].key \in Sel(c).dependents
                /\ ~Aborted(c)
                /\ Propagates(Sel(c), AnsweredChanged(c))
                /\ \E j \in 1..(i - 1) : log[j].op = "invoke" /\ log[j].key = c
          \/ \E c \in QueuedKeys \ {log[i].key} :
                /\ Sel(c) # NoneItem
                /\ log[i].key \in SeqElems(Sel(c).dependencies)
       /\ \/ VariantDeps(ItemAt(reactor, log[i].key)) # <<>>
          \/ \E n \in 1..Len(reactor) :
                log[i].key \in SeqElems(VariantDeps(reactor[n]))

\* a run over the input a, the compute b over a and the compute d, which
\* depends on nothing and on which nothing depends, has returned: a and b
\* were invoked, detect_change_fn answered true, and d was not invoked
C40_Witness ==
    /\ RunReturned
    /\ KeysOf(reactor) = {A, B, D}
    /\ ItemAt(reactor, D).type_ = COMPUTE
    /\ ItemAt(reactor, B).type_ = COMPUTE
    /\ processed = {A, B}
    /\ \A i \in EventsOf("changed") : log[i].val = 1
    /\ EventsOf("changed") # {}

====
